---- MODULE Spec2Model ----
(***************************************************************************)
(* Attendance resolution engine (client engine attendanceEngine.ts and the *)
(* zustand store that calls it).                                           *)
(*                                                                         *)
(* Conventions of the model                                                *)
(*  - a JavaScript string that the code parses (time-of-day, scope,        *)
(*    employee code, sector, department) is a sequence of one-character    *)
(*    strings, so that trim/split/Number are computed, not assumed;        *)
(*  - Arabic literals of the code are transliterated (TLA+ strings are     *)
(*    ASCII); the original literal is given in the comment;                *)
(*  - instants are seconds since 00:00 UTC of day 0 (the code's            *)
(*    milliseconds divided by 1000; every instant is a whole second);      *)
(*  - a calendar date "YYYY-MM-DD" is its day number; day 0 is a Friday;   *)
(*  - null is <<>> and a present value v is <<v>>;                         *)
(*  - totalHours is kept in seconds (hours * 3600), a penalty value in     *)
(*    hundredths (0.25 -> 25, 0.5 -> 50, 1 -> 100).                        *)
(***************************************************************************)
EXTENDS Integers, Sequences, FiniteSets, TLC

(***************************************************************************)
(* State of useAttendanceStore (the input collections, the stored records  *)
(* and the id counter of records) and the last engine invocation.          *)
(***************************************************************************)
VARIABLES
  employees,          \* state.employees
  punches,            \* state.punches
  rules,              \* state.rules
  adjustments,        \* state.adjustments
  leaves,             \* state.leaves
  attendanceRecords,  \* state.attendanceRecords
  nextIds,            \* state.nextIds (the record counter)
  lastRun             \* the arguments and the result of the last call of processAttendanceRecords

vars == <<employees, punches, rules, adjustments, leaves, attendanceRecords, nextIds, lastRun>>

Null == <<>>
Some(v) == <<v>>
Val(m) == m[1]

Max2(a, b) == IF a >= b THEN a ELSE b
Min2(a, b) == IF a <= b THEN a ELSE b

(***************************************************************************)
(* JavaScript string primitives.                                           *)
(***************************************************************************)
Digits == <<"0", "1", "2", "3", "4", "5", "6", "7", "8", "9">>
IsDigit(c) == \E i \in 1..10 : Digits[i] = c
DigitVal(c) == (CHOOSE i \in 1..10 : Digits[i] = c) - 1

RECURSIVE TrimLeft(_)
TrimLeft(s) == IF s # <<>> /\ Head(s) = " " THEN TrimLeft(Tail(s)) ELSE s
RECURSIVE TrimRight(_)
TrimRight(s) ==
  IF s # <<>> /\ s[Len(s)] = " " THEN TrimRight(SubSeq(s, 1, Len(s) - 1)) ELSE s
\* String.prototype.trim
Trim(s) == TrimRight(TrimLeft(s))

RECURSIVE SplitFrom(_, _, _, _)
SplitFrom(s, sep, i, cur) ==
  IF i > Len(s) THEN <<cur>>
  ELSE IF s[i] = sep THEN <<cur>> \o SplitFrom(s, sep, i + 1, <<>>)
  ELSE SplitFrom(s, sep, i + 1, Append(cur, s[i]))
\* String.prototype.split on a one-character separator
Split(s, sep) == SplitFrom(s, sep, 1, <<>>)

StartsWith(s, p) == Len(s) >= Len(p) /\ SubSeq(s, 1, Len(p)) = p
\* s.slice(n) / s.replace(prefix, "") for a string that starts with the prefix
DropPrefix(s, n) == SubSeq(s, n + 1, Len(s))

\* JavaScript NaN: a value outside every number the model computes; the
\* operators that receive it propagate it as IEEE arithmetic does.
NaN == -999999999
IsNaN(x) == x = NaN

RECURSIVE DigitsValue(_, _)
DigitsValue(s, acc) ==
  IF s = <<>> THEN acc ELSE DigitsValue(Tail(s), acc * 10 + DigitVal(Head(s)))
\* Number(string): surrounding blanks are ignored, "" is 0, a run of decimal
\* digits is its value, anything else is NaN.
Number(s) ==
  LET t == Trim(s) IN
    IF t = <<>> THEN 0
    ELSE IF \A i \in 1..Len(t) : IsDigit(t[i]) THEN DigitsValue(t, 0)
    ELSE NaN

RECURSIVE NatToString(_)
NatToString(n) ==
  IF n < 10 THEN <<Digits[n + 1]>> ELSE Append(NatToString(n \div 10), Digits[(n % 10) + 1])
\* String(number)
NumberToString(n) == IF IsNaN(n) THEN <<"N", "a", "N">> ELSE NatToString(n)
\* s.padStart(2, "0")
PadStart2(s) == IF Len(s) = 0 THEN <<"0", "0">> ELSE IF Len(s) = 1 THEN <<"0">> \o s ELSE s

NAdd(a, b) == IF IsNaN(a) \/ IsNaN(b) THEN NaN ELSE a + b
NSub(a, b) == IF IsNaN(a) \/ IsNaN(b) THEN NaN ELSE a - b
NMul(a, b) == IF IsNaN(a) \/ IsNaN(b) THEN NaN ELSE a * b
\* Math.max / Math.min return NaN when an argument is NaN
NMax(a, b) == IF IsNaN(a) \/ IsNaN(b) THEN NaN ELSE Max2(a, b)
NMin(a, b) == IF IsNaN(a) \/ IsNaN(b) THEN NaN ELSE Min2(a, b)
\* === and >= on numbers are false when an argument is NaN
NEq(a, b) == ~IsNaN(a) /\ ~IsNaN(b) /\ a = b
NGe(a, b) == ~IsNaN(a) /\ ~IsNaN(b) /\ a >= b

(***************************************************************************)
(* Time-of-day strings.                                                    *)
(***************************************************************************)
PartOr0(parts, i) == IF i <= Len(parts) THEN parts[i] ELSE <<"0">>

normalizeTimeToHms(value) ==
  LET parts == Split(Trim(value), ":")
      h == PadStart2(NumberToString(Number(PartOr0(parts, 1))))
      m == PadStart2(NumberToString(Number(PartOr0(parts, 2))))
      s == PadStart2(NumberToString(Number(PartOr0(parts, 3))))
  IN h \o <<":">> \o m \o <<":">> \o s

timeStringToSeconds(value) ==
  LET parts == Split(normalizeTimeToHms(value), ":")
      h == Number(parts[1])
      m == Number(parts[2])
      s == Number(parts[3])
  IN NAdd(NAdd(NMul(h, 3600), NMul(m, 60)), s)

secondsToHms(value) ==
  LET total == Max2(0, value)
      h == PadStart2(NatToString(total \div 3600))
      m == PadStart2(NatToString((total % 3600) \div 60))
      s == PadStart2(NatToString(total % 60))
  IN h \o <<":">> \o m \o <<":">> \o s

(***************************************************************************)
(* Adjustment types (ADJUSTMENT_TYPES).                                    *)
(***************************************************************************)
AdjMorningPermission == "izn sabahi"          \* "اذن صباحي"
AdjEveningPermission == "izn masai"           \* "اذن مسائي"
AdjHalfDayLeave == "agaza nos yom"            \* "إجازة نص يوم"
AdjMission == "mamoria"                       \* "مأمورية"
\* types of the shared schema that computeAdjustmentEffects has no branch for
AdjExcusedAbsence == "ghiab bi ozr"           \* "غياب بعذر"
AdjLeaveDeduction == "agaza bil khasm"        \* "إجازة بالخصم"

\* variant: the earliest mission end is kept instead of the latest
missionEndOf_min(missionEndSeconds, toSeconds) ==
  IF missionEndSeconds = Null THEN Some(toSeconds)
  ELSE Some(NMin(Val(missionEndSeconds), toSeconds))

\* missionEndSeconds === null ? toSeconds : Math.max(missionEndSeconds, toSeconds)
missionEndOf(missionEndSeconds, toSeconds) ==
  IF missionEndSeconds = Null THEN Some(toSeconds)
  ELSE Some(NMax(Val(missionEndSeconds), toSeconds))

\* Math.max(0, toSeconds - fromSeconds)
permissionLength(fromSeconds, toSeconds) == NMax(0, NSub(toSeconds, fromSeconds))

\* if (adjustment.type === "اذن صباحي") effectiveShiftStartSeconds += ...
morningPermissionStep(eff, type, fromSeconds, toSeconds) ==
  IF type = AdjMorningPermission
    THEN [eff EXCEPT !.effectiveShiftStartSeconds =
                       NAdd(@, permissionLength(fromSeconds, toSeconds))]
    ELSE eff

\* if (adjustment.type === "اذن مسائي") effectiveShiftEndSeconds -= ...
eveningPermissionStep(eff, type, fromSeconds, toSeconds) ==
  IF type = AdjEveningPermission
    THEN [eff EXCEPT !.effectiveShiftEndSeconds =
                       NSub(@, permissionLength(fromSeconds, toSeconds))]
    ELSE eff

\* if (fromSeconds === shiftStartSeconds) { ... }
halfDayStartStep(eff, type, fromSeconds, toSeconds, shift) ==
  IF type = AdjHalfDayLeave /\ NEq(fromSeconds, shift.startSeconds)
    THEN [eff EXCEPT !.effectiveShiftStartSeconds = toSeconds, !.halfDayExcused = TRUE]
    ELSE eff

\* variant: the evening half pulls the end back to the start of the shift
halfDayEndStep_toShiftStart(eff, type, fromSeconds, toSeconds, shift) ==
  IF type = AdjHalfDayLeave /\ NEq(toSeconds, shift.endSeconds)
    THEN [eff EXCEPT !.effectiveShiftEndSeconds = shift.startSeconds, !.halfDayExcused = TRUE]
    ELSE eff

\* if (toSeconds === shiftEndSeconds) { ... }
halfDayEndStep(eff, type, fromSeconds, toSeconds, shift) ==
  IF type = AdjHalfDayLeave /\ NEq(toSeconds, shift.endSeconds)
    THEN [eff EXCEPT !.effectiveShiftEndSeconds = fromSeconds, !.halfDayExcused = TRUE]
    ELSE eff

\* variant: the mission window starts at the last mission's fromTime
missionStep_lastStart(eff, type, fromSeconds, toSeconds) ==
  IF type = AdjMission
    THEN [eff EXCEPT
            !.missionStartSeconds = Some(fromSeconds),
            !.missionEndSeconds = missionEndOf(@, toSeconds),
            !.suppressPenalties = TRUE]
    ELSE eff

\* if (adjustment.type === "مأمورية") { ... }
missionStep(eff, type, fromSeconds, toSeconds) ==
  IF type = AdjMission
    THEN [eff EXCEPT
            !.missionStartSeconds =
               IF @ = Null THEN Some(fromSeconds) ELSE Some(NMin(Val(@), fromSeconds)),
            !.missionEndSeconds = missionEndOf(@, toSeconds),
            !.suppressPenalties = TRUE]
    ELSE eff

\* the body of for (const adjustment of adjustments)
applyAdjustment(eff, type, fromSeconds, toSeconds, shift) ==
  missionStep(
    halfDayEndStep(
      halfDayStartStep(
        eveningPermissionStep(
          morningPermissionStep(eff, type, fromSeconds, toSeconds),
          type, fromSeconds, toSeconds),
        type, fromSeconds, toSeconds, shift),
      type, fromSeconds, toSeconds, shift),
    type, fromSeconds, toSeconds)

RECURSIVE AdjustmentLoop(_, _, _, _)
AdjustmentLoop(adjustmentList, i, eff, shift) ==
  IF i > Len(adjustmentList) THEN eff
  ELSE AdjustmentLoop(adjustmentList, i + 1,
                      applyAdjustment(eff, adjustmentList[i].type,
                                      timeStringToSeconds(adjustmentList[i].fromTime),
                                      timeStringToSeconds(adjustmentList[i].toTime),
                                      shift),
                      shift)

\* Math.min(...candidates) / Math.max(...candidates) over the non-null entries
MinOfMaybes(a, b) ==
  IF a = Null THEN b ELSE IF b = Null THEN a ELSE Some(NMin(Val(a), Val(b)))
MaxOfMaybes(a, b) ==
  IF a = Null THEN b ELSE IF b = Null THEN a ELSE Some(NMax(Val(a), Val(b)))

\* the values of the let declarations before the loop
initialEffects(shiftStartSeconds, shiftEndSeconds) ==
  [effectiveShiftStartSeconds |-> shiftStartSeconds,
   effectiveShiftEndSeconds |-> shiftEndSeconds,
   missionStartSeconds |-> Null,
   missionEndSeconds |-> Null,
   suppressPenalties |-> FALSE,
   halfDayExcused |-> FALSE]

\* the object returned, with the first and last stamp candidates
effectsWithStamps(eff, checkInSeconds, checkOutSeconds) ==
  [effectiveShiftStartSeconds |-> eff.effectiveShiftStartSeconds,
   effectiveShiftEndSeconds |-> eff.effectiveShiftEndSeconds,
   missionStartSeconds |-> eff.missionStartSeconds,
   missionEndSeconds |-> eff.missionEndSeconds,
   suppressPenalties |-> eff.suppressPenalties,
   halfDayExcused |-> eff.halfDayExcused,
   firstStampSeconds |-> MinOfMaybes(checkInSeconds, eff.missionStartSeconds),
   lastStampSeconds |-> MaxOfMaybes(checkOutSeconds, eff.missionEndSeconds)]

effectsFromSeconds(shiftStartSeconds, shiftEndSeconds, adjustmentList, checkInSeconds, checkOutSeconds) ==
  effectsWithStamps(
    AdjustmentLoop(adjustmentList, 1, initialEffects(shiftStartSeconds, shiftEndSeconds),
                   [startSeconds |-> shiftStartSeconds, endSeconds |-> shiftEndSeconds]),
    checkInSeconds, checkOutSeconds)

computeAdjustmentEffects(shiftStart, shiftEnd, adjustmentList, checkInSeconds, checkOutSeconds) ==
  effectsFromSeconds(timeStringToSeconds(shiftStart), timeStringToSeconds(shiftEnd),
                     adjustmentList, checkInSeconds, checkOutSeconds)

(***************************************************************************)
(* Notes.  A notes string "a، b" is the sequence of its tokens <<a, b>>;   *)
(* every token has the same shape so that tokens can be compared.          *)
(***************************************************************************)
TextNote(t) == [text |-> t, time |-> <<>>, date |-> <<>>]
NoteMissingStamp == "sahw basma"              \* "سهو بصمة"
NoteMissingCheckIn == "sahw basma dokhol"     \* "سهو بصمة دخول"
NoteEarlyLeave == "insiraf mobakker"          \* "انصراف مبكر"
NoteOvernightStay == "mabit"                  \* "مبيت"
NoteAfterMidnight == "khoroug baad montasaf al-layl"  \* "خروج بعد منتصف الليل"
\* `خروج بعد منتصف الليل ${timeLabel} (${dateStr})`
MidnightNote(hh, mm, dateStr) ==
  [text |-> NoteAfterMidnight,
   time |-> PadStart2(NumberToString(hh)) \o <<":">> \o PadStart2(NumberToString(mm)),
   date |-> <<dateStr>>]

RECURSIVE AddAllToSet(_, _)
\* new Set(existing) followed by set.add(note) for each addition: insertion
\* order, first occurrence kept
AddAllToSet(acc, items) ==
  IF items = <<>> THEN acc
  ELSE IF \E i \in 1..Len(acc) : acc[i] = Head(items)
       THEN AddAllToSet(acc, Tail(items))
       ELSE AddAllToSet(Append(acc, Head(items)), Tail(items))

appendNotes(existingNotes, additions) ==
  AddAllToSet(AddAllToSet(<<>>, existingNotes), additions)

composeDailyNotes(baseNotes, extraNotes, leaveNotes, hasOvernightStay) ==
  IF hasOvernightStay THEN <<TextNote(NoteOvernightStay)>>
  ELSE appendNotes(baseNotes, extraNotes \o leaveNotes)

computeAutomaticNotes(checkInExists, checkOutExists, missingStampExcused, earlyLeaveExcused, checkOutBeforeEarlyLeave) ==
  appendNotes(<<>>,
    (IF checkInExists /\ ~checkOutExists /\ ~missingStampExcused
       THEN <<TextNote(NoteMissingStamp)>> ELSE <<>>)
    \o (IF ~checkInExists /\ checkOutExists /\ ~missingStampExcused
       THEN <<TextNote(NoteMissingCheckIn)>> ELSE <<>>)
    \o (IF checkOutExists /\ checkOutBeforeEarlyLeave /\ ~earlyLeaveExcused
       THEN <<TextNote(NoteEarlyLeave)>> ELSE <<>>))

(***************************************************************************)
(* Penalties.                                                              *)
(***************************************************************************)
PenaltyLate == "takhir"                       \* "تأخير"
PenaltyMissingStamp == "sahw basma"           \* "سهو بصمة"
PenaltyEarlyLeave == "insiraf mobakker"       \* "انصراف مبكر"
PenaltyAbsence == "ghiab"                     \* "غياب"

computePenaltyEntries(isExcused, latePenaltyValue, lateMinutes, missingCheckout, earlyLeaveTriggered) ==
  IF isExcused THEN <<>>
  ELSE (IF latePenaltyValue > 0
          THEN <<[type |-> PenaltyLate, value |-> latePenaltyValue, minutes |-> lateMinutes]>>
          ELSE <<>>)
       \o (IF missingCheckout THEN <<[type |-> PenaltyMissingStamp, value |-> 50]>>
           ELSE IF earlyLeaveTriggered THEN <<[type |-> PenaltyEarlyLeave, value |-> 50]>>
           ELSE <<>>)

(***************************************************************************)
(* Rule scopes (shared/rule-scope).                                        *)
(***************************************************************************)
ScopeAll == <<"a", "l", "l">>
PrefixEmp == <<"e", "m", "p", ":">>
PrefixDept == <<"d", "e", "p", "t", ":">>
PrefixSector == <<"s", "e", "c", "t", "o", "r", ":">>

normalizeEmpCode(value) ==
  LET trimmed == Trim(value) IN
    IF trimmed = <<>> THEN <<>>
    ELSE IF \A i \in 1..Len(trimmed) : IsDigit(trimmed[i])
         THEN NumberToString(Number(trimmed))
    ELSE trimmed

splitScopeValues(raw) ==
  LET parts == Split(raw, ",")
      trimmed == [i \in 1..Len(parts) |-> Trim(parts[i])]
  IN SelectSeq(trimmed, LAMBDA v : v # <<>>)

parseRuleScope(scope) ==
  IF scope = <<>> \/ scope = ScopeAll THEN [type |-> "all", values |-> <<>>]
  ELSE IF StartsWith(scope, PrefixEmp)
    THEN LET vs == splitScopeValues(DropPrefix(scope, Len(PrefixEmp)))
             ns == [i \in 1..Len(vs) |-> normalizeEmpCode(vs[i])]
         IN [type |-> "emp", values |-> SelectSeq(ns, LAMBDA v : v # <<>>)]
  ELSE IF StartsWith(scope, PrefixDept)
    THEN [type |-> "dept", values |-> splitScopeValues(DropPrefix(scope, Len(PrefixDept)))]
  ELSE IF StartsWith(scope, PrefixSector)
    THEN [type |-> "sector", values |-> splitScopeValues(DropPrefix(scope, Len(PrefixSector)))]
  ELSE [type |-> "all", values |-> <<>>]

Includes(values, v) == \E i \in 1..Len(values) : values[i] = v

(***************************************************************************)
(* Employee scopes of the server (server/rule-scope).                      *)
(***************************************************************************)
RECURSIVE stripLeadingZeros(_)
\* trimmed.replace(/^0+/, "")
stripLeadingZeros(s) == IF s # <<>> /\ Head(s) = "0" THEN stripLeadingZeros(Tail(s)) ELSE s

\* normalizeEmpCode of server/rule-scope
serverNormalizeEmpCode(value) ==
  LET trimmed == Trim(value) IN
    IF trimmed = <<>> THEN <<>>
    ELSE IF \A i \in 1..Len(trimmed) : IsDigit(trimmed[i])
         THEN (IF stripLeadingZeros(trimmed) = <<>> THEN <<"0">>
               ELSE stripLeadingZeros(trimmed))
    ELSE trimmed

\* the Set parseEmpScope returns
parseEmpScope(scope) ==
  IF ~StartsWith(scope, PrefixEmp) THEN {}
  ELSE LET raw == Split(DropPrefix(scope, Len(PrefixEmp)), ",")
       IN {serverNormalizeEmpCode(raw[i]) : i \in 1..Len(raw)} \ {<<>>}

(***************************************************************************)
(* Dates and instants.                                                     *)
(***************************************************************************)
SecondsPerDay == 86400
SecondsPerHour == 3600
Friday == 5
Saturday == 6
\* d.getUTCDay() (0 = Sunday); day 0 of the model is a Friday
getUTCDay(d) == (d + Friday) % 7

DefaultOffsetMinutes == -120
\* Number.isFinite(Number(timezoneOffsetMinutes)) ? Number(...) : -120
offsetMinutesOf(timezoneOffsetMinutes) ==
  IF timezoneOffsetMinutes = Null THEN DefaultOffsetMinutes ELSE Val(timezoneOffsetMinutes)

\* new Date(date.getTime() - offsetMinutes * 60 * 1000)
toLocal(t, offsetMinutes) == t - offsetMinutes * 60
\* formatLocalDay of a local date
formatLocalDay(local) == local \div SecondsPerDay
getUTCHours(local) == (local % SecondsPerDay) \div SecondsPerHour
getUTCMinutes(local) == (local % SecondsPerHour) \div 60
getUTCSeconds(local) == local % 60
\* getUTCHours() * 3600 + getUTCMinutes() * 60 + getUTCSeconds()
secondsOfDay(local) ==
  getUTCHours(local) * 3600 + getUTCMinutes(local) * 60 + getUTCSeconds(local)

\* the % of JavaScript: the sign of the dividend
JsRem(a, n) == IF a >= 0 THEN a % n ELSE 0 - ((0 - a) % n)

\* variant: the offset is not added back
toUtcFromSeconds_noOffset(baseDate, seconds, offsetMinutes) ==
  LET hours == seconds \div 3600
      minutes == JsRem(seconds, 3600) \div 60
      secs == JsRem(seconds, 60)
  IN baseDate * SecondsPerDay + hours * 3600 + minutes * 60 + secs

toUtcFromSeconds(baseDate, seconds, offsetMinutes) ==
  LET hours == seconds \div 3600
      minutes == JsRem(seconds, 3600) \div 60
      secs == JsRem(seconds, 60)
  IN baseDate * SecondsPerDay + hours * 3600 + minutes * 60 + secs + offsetMinutes * 60

\* Math.ceil(diffMs / (1000 * 60))
CeilMinutes(diffSeconds) == 0 - ((0 - diffSeconds) \div 60)

(***************************************************************************)
(* Maps (JavaScript Map) as functions.                                     *)
(***************************************************************************)
EmptyMap == <<>>
MapGet(m, k, default) == IF k \in DOMAIN m THEN m[k] ELSE default
MapSet(m, k, v) == [x \in (DOMAIN m) \cup {k} |-> IF x = k THEN v ELSE m[x]]

RECURSIVE InsertByTime(_, _)
InsertByTime(sorted, p) ==
  IF sorted = <<>> THEN <<p>>
  ELSE IF Head(sorted).punchDatetime <= p.punchDatetime
       THEN <<Head(sorted)>> \o InsertByTime(Tail(sorted), p)
       ELSE <<p>> \o sorted
RECURSIVE SortByTimeFrom(_, _, _)
SortByTimeFrom(list, i, acc) ==
  IF i > Len(list) THEN acc ELSE SortByTimeFrom(list, i + 1, InsertByTime(acc, list[i]))
\* list.sort((a, b) => a.punchDatetime.getTime() - b.punchDatetime.getTime()), stable
SortByTime(list) == SortByTimeFrom(list, 1, <<>>)

RECURSIVE InsertByPriority(_, _)
InsertByPriority(sorted, r) ==
  IF sorted = <<>> THEN <<r>>
  ELSE IF Head(sorted).priority >= r.priority
       THEN <<Head(sorted)>> \o InsertByPriority(Tail(sorted), r)
       ELSE <<r>> \o sorted
RECURSIVE SortByPriorityFrom(_, _, _)
SortByPriorityFrom(list, i, acc) ==
  IF i > Len(list) THEN acc
  ELSE SortByPriorityFrom(list, i + 1, InsertByPriority(acc, list[i]))
\* variant: the active rules are left in input order
SortByPriority_inputOrder(list) == list
\* .sort((a, b) => (b.priority || 0) - (a.priority || 0)), stable
SortByPriority(list) == SortByPriorityFrom(list, 1, <<>>)

(***************************************************************************)
(* Overnight reclassification.                                             *)
(***************************************************************************)
buildPunchConsumptionKey(employeeCode, punchDatetime) == <<employeeCode, punchDatetime>>

filterConsumedPunches(punchList, consumed) ==
  IF consumed = {} THEN punchList
  ELSE SelectSeq(punchList,
         LAMBDA punch : buildPunchConsumptionKey(punch.employeeCode, punch.punchDatetime)
                          \notin consumed)

RECURSIVE LeadingDigits(_)
LeadingDigits(s) ==
  IF s # <<>> /\ IsDigit(Head(s)) THEN <<Head(s)>> \o LeadingDigits(Tail(s)) ELSE <<>>
\* Number.parseInt(s, 10)
ParseInt(s) ==
  LET ds == LeadingDigits(TrimLeft(s)) IN IF ds = <<>> THEN NaN ELSE DigitsValue(ds, 0)

DefaultShiftStart == <<"0", "9", ":", "0", "0">>
DefaultShiftEnd == <<"1", "7", ":", "0", "0">>
SaturdayShiftStart == <<"1", "0", ":", "0", "0">>
SaturdayShiftEnd == <<"1", "6", ":", "0", "0">>

shiftStartHourOf(employee) ==
  ParseInt(Split(IF employee.shiftStart = <<>> THEN DefaultShiftStart
                 ELSE employee.shiftStart, ":")[1])

arrivalWindow(shiftStartHour) ==
  IF shiftStartHour = 8 THEN [start |-> 5, end |-> 11]
  ELSE IF shiftStartHour = 7 THEN [start |-> 4, end |-> 10]
  ELSE [start |-> 6, end |-> 12]

\* variant: the window starts at hour 1 instead of hour 0
isOvernightPunch_fromOne(local) == getUTCHours(local) >= 1 /\ getUTCHours(local) <= 5

isOvernightPunch(local) == getUTCHours(local) >= 0 /\ getUTCHours(local) <= 5

isNormalArrivalPunch(local, shiftStartHour) ==
  /\ getUTCHours(local) >= arrivalWindow(shiftStartHour).start
  /\ getUTCHours(local) <= arrivalWindow(shiftStartHour).end

\* variant: the edge applies to shifts starting at 6 or earlier
isEarlyShiftEdge_upToSix(local, shiftStartHour) ==
  /\ ~IsNaN(shiftStartHour) /\ shiftStartHour <= 6
  /\ \/ getUTCHours(local) = 4 /\ getUTCMinutes(local) >= 30
     \/ getUTCHours(local) = 5 /\ getUTCMinutes(local) = 0

isEarlyShiftEdge(local, shiftStartHour) ==
  /\ ~IsNaN(shiftStartHour) /\ shiftStartHour <= 7
  /\ \/ getUTCHours(local) = 4 /\ getUTCMinutes(local) >= 30
     \/ getUTCHours(local) = 5 /\ getUTCMinutes(local) = 0

\* the body of overnightPunches.forEach for one punch; dayPunches and
\* prevPunches are the lists read from the map before the forEach started
overnightPunchStep(S, punch, dateStr, dayPunches, prevPunches, shiftStartHour, offsetMinutes) ==
  LET localPunch == toLocal(punch.punchDatetime, offsetMinutes)
      prevDateStr == dateStr - 1
      hasPrevCheckIn == Len(prevPunches) > 0
      hasPrevCheckOut == Len(prevPunches) > 1
      hasNormalArrival ==
        \E i \in 1..Len(dayPunches) :
          /\ dayPunches[i] # punch
          /\ isNormalArrivalPunch(toLocal(dayPunches[i].punchDatetime, offsetMinutes),
                                  shiftStartHour)
  IN IF ~hasPrevCheckIn THEN S
     ELSE IF ~hasPrevCheckOut /\ isEarlyShiftEdge(localPunch, shiftStartHour)
             /\ ~hasNormalArrival THEN S
     ELSE IF ~hasPrevCheckOut \/ hasNormalArrival
       THEN [punchesByDate |->
               MapSet(MapSet(S.punchesByDate, dateStr,
                             SortByTime(SelectSeq(dayPunches, LAMBDA item : item # punch))),
                      prevDateStr, SortByTime(Append(prevPunches, punch))),
             consumedPunchesByDate |->
               MapSet(S.consumedPunchesByDate, dateStr,
                      MapGet(S.consumedPunchesByDate, dateStr, {})
                        \cup {buildPunchConsumptionKey(punch.employeeCode,
                                                       punch.punchDatetime)}),
             extraNotesByKey |->
               MapSet(S.extraNotesByKey, prevDateStr,
                      Append(MapGet(S.extraNotesByKey, prevDateStr, <<>>),
                             MidnightNote(getUTCHours(localPunch),
                                          getUTCMinutes(localPunch), dateStr)))]
     ELSE S

RECURSIVE overnightForEach(_, _, _, _, _, _, _, _)
overnightForEach(S, overnightPunches, j, dateStr, dayPunches, prevPunches, shiftStartHour, offsetMinutes) ==
  IF j > Len(overnightPunches) THEN S
  ELSE overnightForEach(
         overnightPunchStep(S, overnightPunches[j], dateStr, dayPunches, prevPunches,
                            shiftStartHour, offsetMinutes),
         overnightPunches, j + 1, dateStr, dayPunches, prevPunches,
         shiftStartHour, offsetMinutes)

RECURSIVE overnightPass(_, _, _, _, _)
\* for (d = searchStart; d <= searchEnd; d++) of the first loop
overnightPass(S, d, searchEnd, shiftStartHour, offsetMinutes) ==
  IF d > searchEnd THEN S
  ELSE
    LET dayPunches == MapGet(S.punchesByDate, d, <<>>)
        prevPunches == MapGet(S.punchesByDate, d - 1, <<>>)
        overnightPunches ==
          SelectSeq(dayPunches,
                    LAMBDA punch : isOvernightPunch(toLocal(punch.punchDatetime, offsetMinutes)))
    IN overnightPass(
         overnightForEach(S, overnightPunches, 1, d, dayPunches, prevPunches,
                          shiftStartHour, offsetMinutes),
         d + 1, searchEnd, shiftStartHour, offsetMinutes)

\* punchesByDate after bucketing by local day and sorting each bucket
initialBuckets(employee, punchList, offsetMinutes) ==
  LET own == SelectSeq(punchList, LAMBDA punch : punch.employeeCode = employee.code)
      days == {formatLocalDay(toLocal(own[i].punchDatetime, offsetMinutes)) : i \in 1..Len(own)}
  IN [d \in days |->
        SortByTime(SelectSeq(own,
          LAMBDA punch : formatLocalDay(toLocal(punch.punchDatetime, offsetMinutes)) = d))]

\* the state of one employee after the overnight loop
afterOvernight(employee, punchList, startDate, endDate, offsetMinutes) ==
  overnightPass([punchesByDate |-> initialBuckets(employee, punchList, offsetMinutes),
                 consumedPunchesByDate |-> EmptyMap,
                 extraNotesByKey |-> EmptyMap],
                startDate, endDate, shiftStartHourOf(employee), offsetMinutes)

\* the effective (unconsumed, sorted) punches of a day
effectiveDayPunches(S, dateStr) ==
  SortByTime(filterConsumedPunches(MapGet(S.punchesByDate, dateStr, <<>>),
                                   MapGet(S.consumedPunchesByDate, dateStr, {})))

(***************************************************************************)
(* Rules and leaves of a day.                                              *)
(***************************************************************************)
SectorCollections == <<"t", "a", "h", "s", "i", "l">>   \* "التحصيل"

\* the predicate of rules.filter(...) in the second loop
ruleIsActive(rule, employee, normalizedEmployeeCode, dateStr) ==
  IF dateStr < rule.startDate \/ dateStr > rule.endDate THEN FALSE
  ELSE IF rule.scope = ScopeAll THEN TRUE
  ELSE IF StartsWith(rule.scope, PrefixDept)
          /\ employee.department = DropPrefix(rule.scope, Len(PrefixDept)) THEN TRUE
  ELSE IF StartsWith(rule.scope, PrefixSector)
          /\ employee.sector = DropPrefix(rule.scope, Len(PrefixSector)) THEN TRUE
  ELSE IF StartsWith(rule.scope, PrefixEmp)
    THEN LET parsedScope == parseRuleScope(rule.scope)
         IN parsedScope.type = "emp" /\ Includes(parsedScope.values, normalizedEmployeeCode)
  ELSE FALSE

activeRulesOf(ruleList, employee, dateStr) ==
  SortByPriority(SelectSeq(ruleList,
    LAMBDA rule : ruleIsActive(rule, employee, Trim(employee.code), dateStr)))

parseEmployeeScope(scope, employee, normalizedEmployeeCode) ==
  IF scope = <<>> \/ scope = ScopeAll THEN TRUE
  ELSE IF StartsWith(scope, PrefixDept)
    THEN employee.department = DropPrefix(scope, Len(PrefixDept))
  ELSE IF StartsWith(scope, PrefixSector)
    THEN employee.sector = DropPrefix(scope, Len(PrefixSector))
  ELSE IF StartsWith(scope, PrefixEmp)
    THEN LET parsedScope == parseRuleScope(scope)
         IN parsedScope.type = "emp" /\ Includes(parsedScope.values, normalizedEmployeeCode)
  ELSE FALSE

matchesRuleScope(scope, employee) == parseEmployeeScope(scope, employee, Trim(employee.code))

\* activeRules.find((rule) => rule.ruleType === t)
findRule(activeRules, t) ==
  LET hits == SelectSeq(activeRules, LAMBDA rule : rule.ruleType = t)
  IN IF hits = <<>> THEN Null ELSE Some(hits[1])

matchesScope(scope, value, employee) ==
  IF scope = "all" THEN TRUE
  ELSE IF scope = "sector" THEN value = Some(employee.sector)
  ELSE IF scope = "department" THEN value = Some(employee.department)
  ELSE IF scope = "section" THEN value = Some(employee.section)
  ELSE IF scope = "branch" THEN value = Some(employee.branch)
  ELSE IF scope = "emp" THEN value = Some(employee.code)
  ELSE FALSE

\* variant: a collections leave is not restricted to the collections sector
appliesLeave_anySector(leave, dateStr, employee) ==
  IF dateStr < leave.startDate \/ dateStr > leave.endDate THEN FALSE
  ELSE matchesScope(leave.scope,
                    IF leave.scopeValue = <<>> THEN Null ELSE Some(leave.scopeValue),
                    employee)

appliesLeave(leave, dateStr, employee) ==
  IF dateStr < leave.startDate \/ dateStr > leave.endDate THEN FALSE
  ELSE IF leave.type = "collections" /\ employee.sector # SectorCollections THEN FALSE
  ELSE matchesScope(leave.scope,
                    IF leave.scopeValue = <<>> THEN Null ELSE Some(leave.scopeValue),
                    employee)

\* the shift of the day before adjustments
currentShift(activeRules, d) ==
  LET shiftRule == findRule(activeRules, "custom_shift") IN
    IF shiftRule # Null
      THEN [shiftStart |-> IF Val(shiftRule).params.shiftStart # <<>>
                             THEN Val(shiftRule).params.shiftStart ELSE DefaultShiftStart,
            shiftEnd |-> IF Val(shiftRule).params.shiftEnd # <<>>
                           THEN Val(shiftRule).params.shiftEnd ELSE DefaultShiftEnd]
    ELSE IF getUTCDay(d) = Saturday
      THEN [shiftStart |-> SaturdayShiftStart, shiftEnd |-> SaturdayShiftEnd]
    ELSE [shiftStart |-> DefaultShiftStart, shiftEnd |-> DefaultShiftEnd]

(***************************************************************************)
(* Classification of one employee-day (the body of the second loop).       *)
(***************************************************************************)
graceMinutes == 15

\* leaveCategoryFromRule
leaveCategoryFromRuleOf(leaveRule) ==
  IF leaveRule = Null THEN Null
  ELSE IF Val(leaveRule).params.leaveType = "official" THEN Some("Official Leave")
  ELSE Some("HR Leave")

\* leaveCategoryFromLeave
leaveCategoryFromLeaveOf(matchedLeaves) ==
  IF Len(matchedLeaves) > 0
    THEN (IF \E i \in 1..Len(matchedLeaves) : matchedLeaves[i].type = "official"
            THEN Some("Official Leave") ELSE Some("HR Leave"))
    ELSE Null

\* leaveCategoryFromRule || leaveCategoryFromLeave
leaveCategoryOf(fromRule, fromLeave) == IF fromRule # Null THEN fromRule ELSE fromLeave

noteTokens(withNote) == [i \in 1..Len(withNote) |-> TextNote(withNote[i].note)]
\* matchedLeaves.map((leave) => leave.note).filter(Boolean)
leaveNotesOf(matchedLeaves) ==
  noteTokens(SelectSeq(matchedLeaves, LAMBDA leave : leave.note # ""))

\* adjustmentsByEmployeeDate.get(`${employee.code}__${dateStr}`) || []
dayAdjustmentsOf(adjustmentList, employee, d) ==
  SelectSeq(adjustmentList,
            LAMBDA adjustment : adjustment.employeeCode = employee.code /\ adjustment.date = d)

\* checkIn / checkOut of the day's punches
firstPunchOf(dayPunches) ==
  IF Len(dayPunches) > 0 THEN Some(dayPunches[1].punchDatetime) ELSE Null
lastPunchOf(dayPunches) ==
  IF Len(dayPunches) > 1 THEN Some(dayPunches[Len(dayPunches)].punchDatetime) ELSE Null
\* checkIn ? toLocal(checkIn) : null
maybeLocal(t, offsetMinutes) == IF t = Null THEN Null ELSE Some(toLocal(Val(t), offsetMinutes))

\* the constants of one iteration of the second loop, before a branch is taken
contextOf(d, shift, leaveRule, matchedLeaves, hasOvernightStay, dayAdjustments, dayPunches, extraNotes, offsetMinutes) ==
  [currentShiftStart |-> shift.shiftStart,
   currentShiftEnd |-> shift.shiftEnd,
   isFriday |-> getUTCDay(d) = Friday,
   leaveNotes |-> leaveNotesOf(matchedLeaves),
   leaveCategory |-> leaveCategoryOf(leaveCategoryFromRuleOf(leaveRule),
                                     leaveCategoryFromLeaveOf(matchedLeaves)),
   isLeaveDay |-> leaveRule # Null \/ Len(matchedLeaves) > 0,
   hasOvernightStay |-> hasOvernightStay,
   dayAdjustments |-> dayAdjustments,
   dayPunches |-> dayPunches,
   checkIn |-> firstPunchOf(dayPunches),
   checkOut |-> lastPunchOf(dayPunches),
   checkInLocal |-> maybeLocal(firstPunchOf(dayPunches), offsetMinutes),
   checkOutLocal |-> maybeLocal(lastPunchOf(dayPunches), offsetMinutes),
   extraNotes |-> extraNotes]

contextFromRules(employee, d, S, activeRules, leaveList, adjustmentList, offsetMinutes) ==
  contextOf(d,
            currentShift(activeRules, d),
            findRule(activeRules, "attendance_exempt"),
            SelectSeq(leaveList, LAMBDA leave : appliesLeave(leave, d, employee)),
            \E i \in 1..Len(activeRules) : activeRules[i].ruleType = "overnight_stay",
            dayAdjustmentsOf(adjustmentList, employee, d),
            effectiveDayPunches(S, d),
            MapGet(S.extraNotesByKey, d, <<>>),
            offsetMinutes)

\* what the day's context is before a branch is taken
dayContext(employee, d, S, ruleList, leaveList, adjustmentList, offsetMinutes) ==
  contextFromRules(employee, d, S, activeRulesOf(ruleList, employee, d),
                   leaveList, adjustmentList, offsetMinutes)

\* totalHours as first computed (checkOutLocal - checkInLocal)
initialTotalHours(ctx) ==
  IF ctx.checkInLocal # Null /\ ctx.checkOutLocal # Null
    THEN Val(ctx.checkOutLocal) - Val(ctx.checkInLocal) ELSE 0

\* variant: only the first attendance window, 11:00-16:00
inFridayWindow_firstOnly(seconds) ==
  seconds >= 11 * 3600 /\ seconds <= 16 * 3600

inFridayWindow(seconds) ==
  \/ seconds >= 11 * 3600 /\ seconds <= 16 * 3600
  \/ seconds >= 12 * 3600 /\ seconds <= 17 * 3600

\* if (isFriday || isLeaveDay) { ... records.push(...); continue; }
fridayOrLeaveRecord(employee, d, ctx, offsetMinutes) ==
  LET attendedFriday ==
        ctx.isFriday /\ \E i \in 1..Len(ctx.dayPunches) :
          inFridayWindow(secondsOfDay(toLocal(ctx.dayPunches[i].punchDatetime, offsetMinutes)))
  IN [employeeCode |-> employee.code,
      date |-> d,
      checkIn |-> ctx.checkIn,
      checkOut |-> ctx.checkOut,
      totalHours |-> IF ctx.isFriday THEN 0 ELSE initialTotalHours(ctx),
      status |-> IF ctx.isFriday
                   THEN (IF attendedFriday THEN "Friday Attended" ELSE "Friday")
                   ELSE "Comp Day",
      overtimeHours |-> 0,
      penalties |-> <<>>,
      isOvernight |-> FALSE,
      notes |-> composeDailyNotes(
                  IF ctx.isLeaveDay THEN <<TextNote(Val(ctx.leaveCategory))>> ELSE <<>>,
                  ctx.extraNotes, ctx.leaveNotes, ctx.hasOvernightStay),
      missionStart |-> Null,
      missionEnd |-> Null,
      halfDayExcused |-> FALSE]

\* variant: the fallback record carries no penalty
absentRecord_noPenalty(employee, d, ctx) ==
  [employeeCode |-> employee.code,
   date |-> d,
   checkIn |-> Null,
   checkOut |-> Null,
   totalHours |-> 0,
   status |-> "Absent",
   overtimeHours |-> 0,
   penalties |-> <<>>,
   isOvernight |-> FALSE,
   notes |-> composeDailyNotes(<<>>, ctx.extraNotes, ctx.leaveNotes, ctx.hasOvernightStay),
   missionStart |-> Null,
   missionEnd |-> Null,
   halfDayExcused |-> FALSE]

\* the final else: no punches and no adjustments
absentRecord(employee, d, ctx) ==
  [employeeCode |-> employee.code,
   date |-> d,
   checkIn |-> Null,
   checkOut |-> Null,
   totalHours |-> 0,
   status |-> "Absent",
   overtimeHours |-> 0,
   penalties |-> <<[type |-> PenaltyAbsence, value |-> 100]>>,
   isOvernight |-> FALSE,
   notes |-> composeDailyNotes(<<>>, ctx.extraNotes, ctx.leaveNotes, ctx.hasOvernightStay),
   missionStart |-> Null,
   missionEnd |-> Null,
   halfDayExcused |-> FALSE]

\* variant: the > 30 test comes first, so the > 60 tier is never reached
latePenaltyTier_misordered(lateMinutes) ==
  IF lateMinutes > 30 THEN 50
  ELSE IF lateMinutes > 60 THEN 100
  ELSE 25

\* if (lateMinutes > 60) 1; else if (lateMinutes > 30) 0.5; else 0.25  (hundredths)
latePenaltyTier(lateMinutes) ==
  IF lateMinutes > 60 THEN 100
  ELSE IF lateMinutes > 30 THEN 50
  ELSE 25

\* checkInLocal ? hours * 3600 + minutes * 60 + seconds : null
maybeSecondsOfDay(local) == IF local # Null THEN Some(secondsOfDay(Val(local))) ELSE Null
\* missionStartSeconds !== null ? secondsToHms(missionStartSeconds) : null
maybeHms(seconds) == IF seconds # Null THEN Some(secondsToHms(Val(seconds))) ELSE Null

\* the call computeAdjustmentEffects({...}) of the workday branch
dayAdjustmentEffects(ctx) ==
  computeAdjustmentEffects(
    ctx.currentShiftStart, ctx.currentShiftEnd,
    [i \in 1..Len(ctx.dayAdjustments) |->
       [type |-> ctx.dayAdjustments[i].type,
        fromTime |-> ctx.dayAdjustments[i].fromTime,
        toTime |-> ctx.dayAdjustments[i].toTime]],
    maybeSecondsOfDay(ctx.checkInLocal),
    IF ctx.hasOvernightStay THEN Null ELSE maybeSecondsOfDay(ctx.checkOutLocal))

\* excusedDay and isExcusedForPenalties
excuseFlags(hasMission, excusedByHalfDayNoPunch, suppressPenalties, hasOvernightStay) ==
  [hasMission |-> hasMission,
   excusedDay |-> excusedByHalfDayNoPunch \/ hasMission,
   isExcusedForPenalties |->
     excusedByHalfDayNoPunch \/ hasMission \/ suppressPenalties \/ hasOvernightStay]

excuseOf(ctx, adjustmentEffects) ==
  excuseFlags(adjustmentEffects.missionStartSeconds # Null
                /\ adjustmentEffects.missionEndSeconds # Null,
              adjustmentEffects.halfDayExcused /\ ctx.checkIn = Null /\ ctx.checkOut = Null,
              adjustmentEffects.suppressPenalties,
              ctx.hasOvernightStay)

\* the branch if (!isExcusedForPenalties && checkIn) for a given diffMs (in seconds)
measuredLateness(diffMs) ==
  [status |-> IF diffMs > graceMinutes * 60 THEN "Late" ELSE "Present",
   lateMinutes |-> Max2(0, CeilMinutes(diffMs)),
   latePenaltyValue |->
     IF diffMs > graceMinutes * 60 THEN latePenaltyTier(Max2(0, CeilMinutes(diffMs))) ELSE 0,
   penalties |-> <<>>]

\* status, lateMinutes, latePenaltyValue and the penalties pushed before
\* computePenaltyEntries
latenessOf(ctx, isExcusedForPenalties, effectiveShiftStartUTC) ==
  IF ~isExcusedForPenalties /\ ctx.checkIn # Null
    THEN measuredLateness(Val(ctx.checkIn) - effectiveShiftStartUTC)
  ELSE IF ~isExcusedForPenalties /\ ctx.checkIn = Null /\ ctx.checkOut = Null
    THEN [status |-> "Absent", lateMinutes |-> 0, latePenaltyValue |-> 0,
          penalties |-> <<[type |-> PenaltyAbsence, value |-> 100]>>]
  ELSE [status |-> "Present", lateMinutes |-> 0, latePenaltyValue |-> 0, penalties |-> <<>>]

\* missingCheckout, earlyLeaveTriggered and the checkOutBeforeEarlyLeave argument
leavingFlags(checkIn, effectiveCheckOutForPenalties, isExcusedForPenalties, earlyLeaveThreshold) ==
  [missingCheckout |->
     checkIn # Null /\ effectiveCheckOutForPenalties = Null /\ ~isExcusedForPenalties,
   earlyLeaveTriggered |->
     /\ effectiveCheckOutForPenalties # Null
     /\ ~(checkIn # Null /\ effectiveCheckOutForPenalties = Null /\ ~isExcusedForPenalties)
     /\ ~isExcusedForPenalties
     /\ Val(effectiveCheckOutForPenalties) < earlyLeaveThreshold,
   checkOutBeforeEarlyLeave |->
     /\ effectiveCheckOutForPenalties # Null
     /\ Val(effectiveCheckOutForPenalties) < earlyLeaveThreshold]

\* variant: the grace is added to the shift end instead of subtracted
leavingOf_graceAdded(ctx, isExcusedForPenalties, effectiveShiftEndUTC) ==
  leavingFlags(ctx.checkIn,
               IF ctx.hasOvernightStay THEN Null ELSE ctx.checkOut,
               isExcusedForPenalties,
               effectiveShiftEndUTC + graceMinutes * 60)

leavingOf(ctx, isExcusedForPenalties, effectiveShiftEndUTC) ==
  leavingFlags(ctx.checkIn,
               IF ctx.hasOvernightStay THEN Null ELSE ctx.checkOut,
               isExcusedForPenalties,
               effectiveShiftEndUTC - graceMinutes * 60)

\* totalHours after the first if / else if of the workday branch
stampHours(d, ctx, adjustmentEffects, checkOutDateTime, offsetMinutes) ==
  IF ctx.checkInLocal # Null /\ checkOutDateTime # Null
    THEN Max2(0, Val(checkOutDateTime) - Val(ctx.checkInLocal))
  ELSE IF adjustmentEffects.firstStampSeconds # Null /\ adjustmentEffects.lastStampSeconds # Null
    THEN toUtcFromSeconds(d, Val(adjustmentEffects.lastStampSeconds), offsetMinutes)
           - toUtcFromSeconds(d, Val(adjustmentEffects.firstStampSeconds), offsetMinutes)
  ELSE initialTotalHours(ctx)

\* if (checkInDateTime && effectiveCheckOutDateTime) totalHours = ...
finalTotalHours(checkInDateTime, effectiveCheckOutDateTime, totalHours) ==
  IF checkInDateTime # Null /\ effectiveCheckOutDateTime # Null
    THEN Max2(0, Val(effectiveCheckOutDateTime) - Val(checkInDateTime))
    ELSE totalHours

\* cappedCheckout and Math.floor(overtimeMs / (1000 * 60 * 60))
overtimeHoursOf(effectiveCheckOutDateTime, overtimeStart, overtimeCutoff) ==
  IF effectiveCheckOutDateTime # Null
       /\ Min2(Val(effectiveCheckOutDateTime), overtimeCutoff) > overtimeStart
    THEN (Min2(Val(effectiveCheckOutDateTime), overtimeCutoff) - overtimeStart)
           \div SecondsPerHour
    ELSE 0

\* status after if (hasOvernightStay) and if (excusedDay)
finalStatus(excuse, adjustmentEffects, currentShiftEnd, hasOvernightStay, statusAfterLateness) ==
  IF excuse.excusedDay
    THEN (IF excuse.hasMission /\ adjustmentEffects.missionEndSeconds # Null
             /\ NGe(Val(adjustmentEffects.missionEndSeconds),
                    timeStringToSeconds(currentShiftEnd))
            THEN "Present" ELSE "Excused")
  ELSE IF hasOvernightStay THEN "Present"
  ELSE statusAfterLateness

\* records.push({...}) of the workday branch
workdayAssembled(employee, d, ctx, offsetMinutes, adjustmentEffects, excuse, lateness, leaving, checkOutDateTime, effectiveCheckOutDateTime, overtimeStart, overtimeCutoff) ==
  [employeeCode |-> employee.code,
   date |-> d,
   checkIn |-> ctx.checkIn,
   checkOut |-> IF ctx.hasOvernightStay THEN Null ELSE ctx.checkOut,
   totalHours |->
     finalTotalHours(ctx.checkInLocal, effectiveCheckOutDateTime,
                     stampHours(d, ctx, adjustmentEffects, checkOutDateTime, offsetMinutes)),
   status |-> finalStatus(excuse, adjustmentEffects, ctx.currentShiftEnd,
                          ctx.hasOvernightStay, lateness.status),
   overtimeHours |-> overtimeHoursOf(effectiveCheckOutDateTime, overtimeStart, overtimeCutoff),
   penalties |->
     lateness.penalties
       \o computePenaltyEntries(excuse.isExcusedForPenalties, lateness.latePenaltyValue,
                                lateness.lateMinutes, leaving.missingCheckout,
                                leaving.earlyLeaveTriggered),
   isOvernight |-> FALSE,
   notes |->
     composeDailyNotes(
       computeAutomaticNotes(ctx.checkIn # Null, ctx.checkOut # Null,
                             excuse.excusedDay \/ ctx.hasOvernightStay,
                             excuse.excusedDay \/ ctx.hasOvernightStay,
                             leaving.checkOutBeforeEarlyLeave),
       ctx.extraNotes, ctx.leaveNotes, ctx.hasOvernightStay),
   missionStart |-> maybeHms(adjustmentEffects.missionStartSeconds),
   missionEnd |-> maybeHms(adjustmentEffects.missionEndSeconds),
   halfDayExcused |-> adjustmentEffects.halfDayExcused]

\* the workday branch once effectiveShiftStartUTC, effectiveShiftEndUTC and
\* nextDayShiftStartUTC are known
workdayWithTimes(employee, d, ctx, offsetMinutes, adjustmentEffects, excuse, effectiveShiftStartUTC, effectiveShiftEndUTC, nextDayShiftStartUTC) ==
  workdayAssembled(
    employee, d, ctx, offsetMinutes, adjustmentEffects, excuse,
    latenessOf(ctx, excuse.isExcusedForPenalties, effectiveShiftStartUTC),
    leavingOf(ctx, excuse.isExcusedForPenalties, effectiveShiftEndUTC),
    IF ctx.hasOvernightStay THEN Null ELSE ctx.checkOutLocal,
    IF ctx.hasOvernightStay THEN Some(nextDayShiftStartUTC) ELSE ctx.checkOutLocal,
    effectiveShiftEndUTC + 60 * 60,
    nextDayShiftStartUTC)

workdayWithEffects(employee, d, ctx, offsetMinutes, adjustmentEffects) ==
  workdayWithTimes(
    employee, d, ctx, offsetMinutes, adjustmentEffects,
    excuseOf(ctx, adjustmentEffects),
    toUtcFromSeconds(d, adjustmentEffects.effectiveShiftStartSeconds, offsetMinutes),
    toUtcFromSeconds(d, adjustmentEffects.effectiveShiftEndSeconds, offsetMinutes),
    toUtcFromSeconds(d + 1, adjustmentEffects.effectiveShiftStartSeconds, offsetMinutes))

\* if (dayPunches.length > 0 || dayAdjustments.length > 0) { ... }
workdayRecord(employee, d, ctx, offsetMinutes) ==
  workdayWithEffects(employee, d, ctx, offsetMinutes, dayAdjustmentEffects(ctx))

\* variant: the final else is missing, a day without data pushes nothing
dayRecordsOf_noFallback(employee, d, ctx, offsetMinutes) ==
  IF ctx.isFriday \/ ctx.isLeaveDay
    THEN <<fridayOrLeaveRecord(employee, d, ctx, offsetMinutes)>>
  ELSE IF Len(ctx.dayPunches) > 0 \/ Len(ctx.dayAdjustments) > 0
    THEN <<workdayRecord(employee, d, ctx, offsetMinutes)>>
  ELSE <<>>

\* the branch taken by one iteration of the second loop and what it pushes
dayRecordsOf(employee, d, ctx, offsetMinutes) ==
  IF ctx.isFriday \/ ctx.isLeaveDay
    THEN <<fridayOrLeaveRecord(employee, d, ctx, offsetMinutes)>>
  ELSE IF Len(ctx.dayPunches) > 0 \/ Len(ctx.dayAdjustments) > 0
    THEN <<workdayRecord(employee, d, ctx, offsetMinutes)>>
  ELSE <<absentRecord(employee, d, ctx)>>

\* the records pushed by one iteration of the second loop
dayRecords(employee, d, S, ruleList, leaveList, adjustmentList, offsetMinutes) ==
  dayRecordsOf(employee, d,
               dayContext(employee, d, S, ruleList, leaveList, adjustmentList, offsetMinutes),
               offsetMinutes)

RECURSIVE daysLoop(_, _, _, _, _, _, _, _)
daysLoop(employee, d, endDate, S, ruleList, leaveList, adjustmentList, offsetMinutes) ==
  IF d > endDate THEN <<>>
  ELSE dayRecords(employee, d, S, ruleList, leaveList, adjustmentList, offsetMinutes)
       \o daysLoop(employee, d + 1, endDate, S, ruleList, leaveList, adjustmentList, offsetMinutes)

\* one iteration of for (const employee of employees)
employeeRecords(employee, punchList, ruleList, leaveList, adjustmentList, startDate, endDate, offsetMinutes) ==
  daysLoop(employee, startDate, endDate,
           afterOvernight(employee, punchList, startDate, endDate, offsetMinutes),
           ruleList, leaveList, adjustmentList, offsetMinutes)

RECURSIVE employeesLoop(_, _, _, _, _, _, _, _, _)
employeesLoop(employeeList, i, punchList, ruleList, leaveList, adjustmentList, startDate, endDate, offsetMinutes) ==
  IF i > Len(employeeList) THEN <<>>
  ELSE employeeRecords(employeeList[i], punchList, ruleList, leaveList, adjustmentList, startDate,
                       endDate, offsetMinutes)
       \o employeesLoop(employeeList, i + 1, punchList, ruleList, leaveList, adjustmentList, startDate,
                        endDate, offsetMinutes)

\* variant: the engine numbers its records from the store's counter
firstRecordId_shared == nextIds.record

\* let recordId = 1
firstRecordId == 1

\* id: recordId++ at every records.push
withRecordIds(list, first) ==
  [i \in 1..Len(list) |-> [id |-> first + i - 1] @@ list[i]]

processAttendanceRecords(employeeList, punchList, ruleList, leaveList, adjustmentList, startDate, endDate, timezoneOffsetMinutes) ==
  withRecordIds(
    employeesLoop(employeeList, 1, punchList, ruleList, leaveList, adjustmentList, startDate, endDate,
                  offsetMinutesOf(timezoneOffsetMinutes)),
    firstRecordId)

(***************************************************************************)
(* Input pools.  Local times below are wall-clock times at UTC+2 (offset   *)
(* -120); day 0 is a Friday, day 1 a Saturday, day 2 a Sunday.             *)
(***************************************************************************)
MaxDay == 2
MaxItems == 3

Days == 0..MaxDay
Ranges == {<<a, b>> \in Days \X Days : a <= b}
Offsets == {Null, Some(0)}

Code31 == <<"3", "1">>
Code7 == <<"7">>
E31 == [id |-> 1, code |-> Code31, sector |-> SectorCollections,
        department |-> <<"I", "T">>, section |-> <<"A">>, branch |-> <<"C">>,
        shiftStart |-> <<"0", "9", ":", "0", "0">>, terminationDate |-> Null]
E7 == [id |-> 2, code |-> Code7, sector |-> <<"s", "a", "l", "e", "s">>,
       department |-> <<"H", "R">>, section |-> <<"B">>, branch |-> <<"C">>,
       shiftStart |-> <<"0", "7", ":", "0", "0">>, terminationDate |-> Some(1)]
EmployeeLists == {<<E31>>, <<E31, E7>>}

\* the instant of local time hh:mm (UTC+2) on day d
At(d, hh, mm) == d * SecondsPerDay + hh * 3600 + mm * 60 - 7200
PunchRow(code, d, hh, mm) == [employeeCode |-> code, punchDatetime |-> At(d, hh, mm)]
Hm(h1, h2, m1, m2) == <<h1, h2, ":", m1, m2>>
AdjRow(code, d, type, from, to) ==
  [employeeCode |-> code, date |-> d, type |-> type, fromTime |-> from, toTime |-> to]
RuleRow(scope, ruleType, from, to, priority, params) ==
  [scope |-> scope, ruleType |-> ruleType, startDate |-> from, endDate |-> to,
   priority |-> priority, params |-> params]
NoParams == [shiftStart |-> <<>>, shiftEnd |-> <<>>, leaveType |-> ""]
LeaveRow(type, scope, scopeValue, from, to, note) ==
  [type |-> type, scope |-> scope, scopeValue |-> scopeValue, startDate |-> from,
   endDate |-> to, note |-> note]

PunchPool ==
  << PunchRow(Code31, 0, 16, 30),
     PunchRow(Code31, 1, 0, 30),
     PunchRow(Code31, 1, 22, 10),
     PunchRow(Code31, 2, 0, 30),
     PunchRow(Code31, 2, 1, 15),
     PunchRow(Code31, 2, 8, 55),
     PunchRow(Code31, 2, 9, 40),
     PunchRow(Code31, 2, 11, 20),
     PunchRow(Code31, 2, 17, 5),
     PunchRow(Code7, 1, 22, 10),
     PunchRow(Code7, 2, 4, 45),
     PunchRow(Code7, 2, 9, 5) >>

AdjustmentPool ==
  << AdjRow(Code31, 2, AdjMission, Hm("1", "0", "0", "0"), Hm("1", "4", "0", "0")),
     AdjRow(Code31, 2, AdjMission, Hm("1", "3", "0", "0"), Hm("1", "7", "0", "0")),
     AdjRow(Code31, 2, AdjMorningPermission, Hm("0", "9", "0", "0"), Hm("1", "0", "0", "0")),
     AdjRow(Code31, 2, AdjEveningPermission, Hm("1", "6", "0", "0"), Hm("1", "7", "0", "0")),
     AdjRow(Code31, 2, AdjHalfDayLeave, Hm("0", "9", "0", "0"), Hm("1", "3", "0", "0")),
     AdjRow(Code31, 2, AdjExcusedAbsence, Hm("0", "0", "0", "0"), Hm("2", "3", "5", "9")),
     AdjRow(Code31, 1, AdjLeaveDeduction, Hm("0", "0", "0", "0"), Hm("2", "3", "5", "9")) >>

RulePool ==
  << RuleRow(ScopeAll, "overnight_stay", 1, 2, 10, NoParams),
     RuleRow(ScopeAll, "custom_shift", 2, 2, 5,
             [shiftStart |-> Hm("0", "8", "0", "0"), shiftEnd |-> Hm("1", "6", "0", "0"),
              leaveType |-> ""]),
     RuleRow(PrefixEmp \o Code31, "attendance_exempt", 2, 2, 1,
             [shiftStart |-> <<>>, shiftEnd |-> <<>>, leaveType |-> "official"]),
     RuleRow(PrefixEmp \o <<"0">> \o Code31, "custom_shift", 1, 2, 7,
             [shiftStart |-> Hm("0", "7", "0", "0"), shiftEnd |-> Hm("1", "5", "0", "0"),
              leaveType |-> ""]),
     RuleRow(ScopeAll, "custom_shift", 2, 2, 5,
             [shiftStart |-> Hm("1", "0", "0", "0"), shiftEnd |-> Hm("1", "8", "0", "0"),
              leaveType |-> ""]) >>

LeavePool ==
  << LeaveRow("official", "all", <<>>, 1, 1, "Eid"),
     LeaveRow("collections", "all", <<>>, 2, 2, ""),
     LeaveRow("annual", "department", <<"H", "R">>, 2, 2, "") >>

NumPunches == Len(PunchPool)
NumAdjustments == Len(AdjustmentPool)
NumRules == Len(RulePool)
NumLeaves == Len(LeavePool)
NumItems == NumPunches + NumAdjustments + NumRules + NumLeaves

RECURSIVE IncreasingSeqs(_, _)
\* the strictly increasing sequences over 1..n of length at most k
IncreasingSeqs(n, k) ==
  IF k = 0 THEN {<<>>}
  ELSE LET shorter == IncreasingSeqs(n, k - 1) IN
    shorter \cup
    {Append(s, j) : <<s, j>> \in
        {<<t, i>> \in {t \in shorter : Len(t) = k - 1} \X (1..n) :
            t = <<>> \/ t[Len(t)] < i}}

\* rows lo+1..lo+n of a selection, taken from a pool and given ids 1, 2, ...
Chosen(sel, lo, pool) ==
  LET idx == SelectSeq(sel, LAMBDA i : i > lo /\ i <= lo + Len(pool))
  IN [k \in 1..Len(idx) |-> [id |-> k] @@ pool[idx[k] - lo]]

Init ==
  /\ employees \in EmployeeLists
  /\ \E sel \in IncreasingSeqs(NumItems, MaxItems) :
       /\ punches = Chosen(sel, 0, PunchPool)
       /\ adjustments = Chosen(sel, NumPunches, AdjustmentPool)
       /\ rules = Chosen(sel, NumPunches + NumAdjustments, RulePool)
       /\ leaves = Chosen(sel, NumPunches + NumAdjustments + NumRules, LeavePool)
  /\ attendanceRecords = <<>>
  /\ nextIds = [employee |-> Len(employees) + 1, rule |-> Len(rules) + 1,
                adjustment |-> Len(adjustments) + 1, leave |-> Len(leaves) + 1,
                record |-> 1]
  /\ lastRun = Null

\* history: whether the call before this one was made on the same collections
\* with the same arguments
sameCallAsLast(startDate, endDate, timezoneOffsetMinutes) ==
  /\ lastRun # Null
  /\ Val(lastRun).employees = employees
  /\ Val(lastRun).punches = punches
  /\ Val(lastRun).rules = rules
  /\ Val(lastRun).leaves = leaves
  /\ Val(lastRun).adjustments = adjustments
  /\ Val(lastRun).startDate = startDate
  /\ Val(lastRun).endDate = endDate
  /\ Val(lastRun).timezoneOffsetMinutes = timezoneOffsetMinutes

\* the arguments of a call of processAttendanceRecords on the current
\* collections, and what it returns
engineCall(startDate, endDate, timezoneOffsetMinutes) ==
  [employees |-> employees,
   punches |-> punches,
   rules |-> rules,
   leaves |-> leaves,
   adjustments |-> adjustments,
   startDate |-> startDate,
   endDate |-> endDate,
   timezoneOffsetMinutes |-> timezoneOffsetMinutes,
   records |-> processAttendanceRecords(employees, punches, rules, leaves, adjustments,
                                        startDate, endDate, timezoneOffsetMinutes),
   \* history: the previous call had the same collections and arguments
   repeated |-> sameCallAsLast(startDate, endDate, timezoneOffsetMinutes)]

\* one call processAttendanceRecords({employees, punches, rules, leaves,
\* adjustments, startDate, endDate, timezoneOffsetMinutes}) on the inputs
RunEngine(startDate, endDate, timezoneOffsetMinutes) ==
  /\ lastRun = Null
  /\ lastRun' = Some(engineCall(startDate, endDate, timezoneOffsetMinutes))
  /\ UNCHANGED <<employees, punches, rules, adjustments, leaves, attendanceRecords, nextIds>>

Next == \E r \in Ranges, tz \in Offsets : RunEngine(r[1], r[2], tz)

Spec == Init /\ [][Next]_vars

(***************************************************************************)
(* useAttendanceStore: the store starts empty and is filled by its         *)
(* actions; processAttendance runs the engine and merges the result.       *)
(***************************************************************************)
MaxStoreRows == 2
MaxRecordId == 4

StoreEmployeeRows ==
  { [code |-> Code31, sector |-> SectorCollections, department |-> <<"I", "T">>,
     section |-> <<"A">>, branch |-> <<"C">>, shiftStart |-> <<>>],
    [code |-> Code7, sector |-> <<"s", "a", "l", "e", "s">>, department |-> <<"H", "R">>,
     section |-> <<"B">>, branch |-> <<"C">>, shiftStart |-> <<"0", "7", ":", "0", "0">>] }
\* a row of importPunches: punchDatetime is the instant new Date(...) yields,
\* NaN for an invalid date string
StorePunchRows ==
  { PunchRow(Code31, 1, 22, 10), PunchRow(Code31, 2, 0, 30),
    [employeeCode |-> Code31, punchDatetime |-> NaN] }
\* the ranges and offsets the store is asked to process
StoreRanges == {<<1, 1>>, <<2, 2>>, <<1, 2>>}
StoreOffsets == {Null}
StoreAdjustmentRows ==
  { AdjRow(Code31, 2, AdjMission, Hm("1", "0", "0", "0"), Hm("1", "4", "0", "0")) }

StoreInit ==
  /\ employees = <<>>
  /\ punches = <<>>
  /\ rules = <<>>
  /\ adjustments = <<>>
  /\ leaves = <<>>
  /\ attendanceRecords = <<>>
  /\ nextIds = [employee |-> 1, rule |-> 1, adjustment |-> 1, leave |-> 1, record |-> 1]
  /\ lastRun = Null

\* createEmployee: throws (state unchanged) when the code exists
createEmployee(row) ==
  /\ IF \E i \in 1..Len(employees) : employees[i].code = row.code
       THEN UNCHANGED <<employees, nextIds>>
       ELSE /\ employees' =
                 Append(employees,
                        [id |-> nextIds.employee] @@
                        [row EXCEPT !.shiftStart = IF @ = <<>> THEN DefaultShiftStart ELSE @])
            /\ nextIds' = [nextIds EXCEPT !.employee = @ + 1]
  /\ UNCHANGED <<punches, rules, adjustments, leaves, attendanceRecords, lastRun>>

RECURSIVE pushPunches(_, _)
\* rows.forEach: a row without a code or with an invalid date is skipped
pushPunches(nextPunches, rows) ==
  IF rows = <<>> THEN nextPunches
  ELSE IF Head(rows).employeeCode = <<>> \/ IsNaN(Head(rows).punchDatetime)
    THEN pushPunches(nextPunches, Tail(rows))
  ELSE pushPunches(Append(nextPunches,
                          [id |-> Len(nextPunches) + 1,
                           employeeCode |-> Head(rows).employeeCode,
                           punchDatetime |-> Head(rows).punchDatetime]),
                   Tail(rows))

importPunches(rows) ==
  /\ Len(punches) + Len(adjustments) < MaxStoreRows
  /\ punches' = pushPunches(punches, rows)
  /\ UNCHANGED <<employees, rules, adjustments, leaves, attendanceRecords, nextIds, lastRun>>

createAdjustment(row) ==
  /\ Len(punches) + Len(adjustments) < MaxStoreRows
  /\ adjustments' = Append(adjustments, [id |-> nextIds.adjustment] @@ row)
  /\ nextIds' = [nextIds EXCEPT !.adjustment = @ + 1]
  /\ UNCHANGED <<employees, punches, rules, leaves, attendanceRecords, lastRun>>

recordKey(record) == <<record.employeeCode, record.date>>

RECURSIVE mapSetAll(_, _)
\* list.forEach((record) => merged.set(recordKey(record), record)) on a Map
\* kept as the sequence of its values in insertion order
mapSetAll(merged, list) ==
  IF list = <<>> THEN merged
  ELSE mapSetAll(
         IF \E i \in 1..Len(merged) : recordKey(merged[i]) = recordKey(Head(list))
           THEN [i \in 1..Len(merged) |->
                   IF recordKey(merged[i]) = recordKey(Head(list)) THEN Head(list)
                   ELSE merged[i]]
           ELSE Append(merged, Head(list)),
         Tail(list))

\* variant: no range filter and no Map, the new records are appended
mergeRecords_append(stored, withIds, startDate, endDate) == stored \o withIds

\* variant: the stored records are replaced by the new ones
mergeRecords_replaceAll(stored, withIds, startDate, endDate) == withIds

\* remaining = stored records outside the range; merged = remaining, then withIds
mergeRecords(stored, withIds, startDate, endDate) ==
  LET remaining ==
        SelectSeq(stored, LAMBDA record : ~(record.date >= startDate /\ record.date <= endDate))
  IN mapSetAll(mapSetAll(<<>>, remaining), withIds)

\* records.map((record, index) => ({ ...record, id: nextRecordIdStart + index }))
assignStoreIds(records, nextRecordIdStart) ==
  [i \in 1..Len(records) |-> [records[i] EXCEPT !.id = nextRecordIdStart + i - 1]]

\* set({attendanceRecords: updatedRecords, nextIds: {...}}) for the engine's result
storeProcessed(call, withIds, startDate, endDate) ==
  /\ attendanceRecords' = mergeRecords(attendanceRecords, withIds, startDate, endDate)
  /\ nextIds' = [nextIds EXCEPT !.record = @ + Len(withIds)]
  /\ lastRun' = Some(call)
  /\ UNCHANGED <<employees, punches, rules, adjustments, leaves>>

processWith(call, startDate, endDate) ==
  storeProcessed(call, assignStoreIds(call.records, nextIds.record), startDate, endDate)

processAttendance(startDate, endDate, timezoneOffsetMinutes) ==
  /\ nextIds.record <= MaxRecordId
  /\ processWith(engineCall(startDate, endDate, timezoneOffsetMinutes), startDate, endDate)

StoreNext ==
  \/ \E row \in StoreEmployeeRows : createEmployee(row)
  \/ \E row \in StorePunchRows : importPunches(<<row>>)
  \/ \E row \in StoreAdjustmentRows : createAdjustment(row)
  \/ \E r \in StoreRanges, tz \in StoreOffsets : processAttendance(r[1], r[2], tz)

StoreSpec == StoreInit /\ [][StoreNext]_vars

(***************************************************************************)
(* The employee roster of the store: importEmployees, createEmployee and   *)
(* updateEmployee on an initially empty store.                             *)
(***************************************************************************)
MaxEmployees == 3
Code8 == <<"8">>
\* rows of importEmployees / createEmployee; a row may come without a code
RosterRows ==
  StoreEmployeeRows \cup
  { [code |-> Code8, sector |-> <<"s", "a", "l", "e", "s">>, department |-> <<"I", "T">>,
     section |-> <<"A">>, branch |-> <<"C">>, shiftStart |-> <<"0", "8", ":", "0", "0">>],
    [code |-> <<>>, sector |-> <<"s", "a", "l", "e", "s">>, department |-> <<"I", "T">>,
     section |-> <<"A">>, branch |-> <<"C">>, shiftStart |-> <<>>] }
\* the lists of rows of one import: one row, or two (possibly equal) rows
RosterImports == {<<a>> : a \in RosterRows} \cup {<<a, b>> : <<a, b>> \in RosterRows \X RosterRows}
\* updates: Partial<InsertEmployee>
RosterUpdates ==
  { [code |-> Code31], [code |-> Code7],
    [shiftStart |-> <<"0", "8", ":", "0", "0">>] }

RECURSIVE pushEmployees(_, _, _)
\* rows.forEach: a row without a code or with a code of existingMap is
\* skipped, the others are pushed with the ids nextIds.employee + inserted
pushEmployees(nextEmployees, rows, nextId) ==
  IF rows = <<>> THEN nextEmployees
  ELSE IF Head(rows).code = <<>>
          \/ \E i \in 1..Len(nextEmployees) : nextEmployees[i].code = Head(rows).code
    THEN pushEmployees(nextEmployees, Tail(rows), nextId)
  ELSE pushEmployees(
         Append(nextEmployees,
                [id |-> nextId] @@
                [Head(rows) EXCEPT !.shiftStart = IF @ = <<>> THEN DefaultShiftStart ELSE @]),
         Tail(rows), nextId + 1)

importEmployees(rows) ==
  /\ Len(employees) + Len(rows) <= MaxEmployees
  /\ employees' = pushEmployees(employees, rows, nextIds.employee)
  /\ nextIds' = [nextIds EXCEPT !.employee =
                    @ + Len(pushEmployees(employees, rows, nextIds.employee)) - Len(employees)]
  /\ UNCHANGED <<punches, rules, adjustments, leaves, attendanceRecords, lastRun>>

\* createEmployee on a roster below the bound
createRosterEmployee(row) ==
  /\ Len(employees) < MaxEmployees
  /\ row.code # <<>>
  /\ createEmployee(row)

\* updateEmployee: { ...employee, ...updates } for the employee with the id;
\* null (state unchanged) when there is none
updateEmployee(id, updates) ==
  /\ IF \E i \in 1..Len(employees) : employees[i].id = id
       THEN employees' = [i \in 1..Len(employees) |->
                            IF employees[i].id = id THEN updates @@ employees[i]
                            ELSE employees[i]]
       ELSE UNCHANGED employees
  /\ UNCHANGED <<punches, rules, adjustments, leaves, attendanceRecords, nextIds, lastRun>>

RosterNext ==
  \/ \E row \in RosterRows : createRosterEmployee(row)
  \/ \E rows \in RosterImports : importEmployees(rows)
  \/ \E id \in 1..MaxEmployees, updates \in RosterUpdates : updateEmployee(id, updates)

RosterSpec == StoreInit /\ [][RosterNext]_vars

(***************************************************************************)
(* The export tables: buildAttendanceExportRows on a list of attendance    *)
(* records.  The summary table is modelled column by column; the employee  *)
(* name and the last punch date, which are display columns, and the detail *)
(* table are not carried.  Penalty values are in hundredths, and so is the *)
(* penalties total of a summary row.                                       *)
(***************************************************************************)
MaxExportRecords == 4
DayTypeWork == "amal"                         \* "عمل"
DayTypeFriday == "gomaa"                      \* "جمعة"
DayTypeOfficial == "agaza rasmeya"            \* "إجازة رسمية"
DayTypeLeave == "agaza"                       \* "إجازة"
DayTypeLeaveDeduction == "agaza bel-khasm"    \* "إجازة بالخصم"
DayTypeExcused == "ghiab be-ozr"              \* "غياب بعذر"
DayTypeTermination == "fatret tark"           \* "فترة ترك"

\* Number(value || 0) of a nullable count
NumberOrZero(value) == IF value = Null THEN 0 ELSE IF Val(value) = 0 THEN 0 ELSE Val(value)

\* the day type of a record, lines 95-109
dayTypeOf(record) ==
  IF NumberOrZero(record.terminationPeriodDays) > 0 THEN DayTypeTermination
  ELSE IF NumberOrZero(record.leaveDeductionDays) > 0 THEN DayTypeLeaveDeduction
  ELSE IF NumberOrZero(record.excusedAbsenceDays) > 0 THEN DayTypeExcused
  ELSE IF getUTCDay(record.date) = Friday THEN DayTypeFriday
  ELSE IF record.isOfficialHoliday THEN DayTypeOfficial
  ELSE IF record.status = "Comp Day" /\ record.notes = "Official Leave" THEN DayTypeOfficial
  ELSE IF record.status = "Comp Day" THEN DayTypeLeave
  ELSE DayTypeWork

\* record.workedOnOfficialHoliday ?? autoWorkedOnHoliday
workedOnHolidayOf(record) ==
  IF record.workedOnOfficialHoliday # Null THEN Val(record.workedOnOfficialHoliday)
  ELSE \/ record.checkIn # Null \/ record.checkOut # Null
       \/ record.totalHours > 0
       \/ (record.missionStart # Null /\ record.missionEnd # Null)

\* the summary of an employee code that has none yet
newSummary(code) ==
  [code |-> code, workDays |-> 0, fridays |-> 0, fridayAttendance |-> 0,
   officialLeaves |-> 0, hrLeaves |-> 0, officialHolidayDays |-> 0,
   officialHolidayAttendance |-> 0, compDayCredits |-> 0, absenceDays |-> 0,
   excusedAbsenceDays |-> 0, leaveDeductionDays |-> 0, terminationPeriodDays |-> 0,
   compDaysFriday |-> 0, compDaysOfficial |-> 0, compDaysTotal |-> 0,
   totalLate |-> 0, totalEarlyLeave |-> 0, totalMissingStamp |-> 0,
   totalAbsencePenalty |-> 0, totalPenalties |-> 0]

RECURSIVE penaltyTotals(_, _)
\* penalties.forEach of lines 249-257
penaltyTotals(summary, penalties) ==
  IF penalties = <<>> THEN summary
  ELSE LET penalty == Head(penalties)
           value == penalty.value
       IN penaltyTotals(
            [summary EXCEPT
               !.totalPenalties = @ + value,
               !.totalLate = IF penalty.type = PenaltyLate THEN @ + value ELSE @,
               !.totalEarlyLeave = IF penalty.type = PenaltyEarlyLeave THEN @ + value ELSE @,
               !.totalMissingStamp = IF penalty.type = PenaltyMissingStamp THEN @ + value ELSE @,
               !.totalAbsencePenalty = IF penalty.type = PenaltyAbsence THEN @ + value ELSE @],
            Tail(penalties))

\* variant: an absent record of a Friday is counted as an absence day
countedRecord_fridaysToo(summary, record) ==
  LET isFriday == getUTCDay(record.date) = Friday
      attendedFriday == record.status = "Friday Attended"
      dayType == dayTypeOf(record)
      worked == record.isOfficialHoliday /\ workedOnHolidayOf(record)
      Inc(cond) == IF cond THEN 1 ELSE 0
      counted ==
        [summary EXCEPT
           !.workDays = @ + Inc(dayType = DayTypeWork),
           !.fridays = @ + Inc(dayType = DayTypeFriday),
           !.fridayAttendance = @ + Inc(isFriday /\ attendedFriday),
           !.officialHolidayDays = @ + Inc(record.isOfficialHoliday),
           !.officialHolidayAttendance = @ + Inc(worked),
           !.compDayCredits = @ + Inc(worked),
           !.officialLeaves = @ + Inc(dayType = DayTypeOfficial /\ ~record.isOfficialHoliday),
           !.hrLeaves = @ + Inc(dayType = DayTypeLeave),
           !.absenceDays = @ + Inc(record.status = "Absent"),
           !.excusedAbsenceDays = @ + NumberOrZero(record.excusedAbsenceDays),
           !.leaveDeductionDays = @ + NumberOrZero(record.leaveDeductionDays),
           !.terminationPeriodDays = @ + NumberOrZero(record.terminationPeriodDays),
           !.compDaysFriday = @ + NumberOrZero(record.compDaysFriday),
           !.compDaysOfficial = @ + NumberOrZero(record.compDaysOfficial),
           !.compDaysTotal = @ + NumberOrZero(record.compDaysTotal)]
  IN IF ~isFriday /\ record.penalties # <<>>
       THEN penaltyTotals(counted, record.penalties)
       ELSE counted

\* the counting of one record into the summary of its employee, lines 225-258
countedRecord(summary, record) ==
  LET isFriday == getUTCDay(record.date) = Friday
      attendedFriday == record.status = "Friday Attended"
      dayType == dayTypeOf(record)
      worked == record.isOfficialHoliday /\ workedOnHolidayOf(record)
      Inc(cond) == IF cond THEN 1 ELSE 0
      counted ==
        [summary EXCEPT
           !.workDays = @ + Inc(dayType = DayTypeWork),
           !.fridays = @ + Inc(dayType = DayTypeFriday),
           !.fridayAttendance = @ + Inc(isFriday /\ attendedFriday),
           !.officialHolidayDays = @ + Inc(record.isOfficialHoliday),
           !.officialHolidayAttendance = @ + Inc(worked),
           !.compDayCredits = @ + Inc(worked),
           !.officialLeaves = @ + Inc(dayType = DayTypeOfficial /\ ~record.isOfficialHoliday),
           !.hrLeaves = @ + Inc(dayType = DayTypeLeave),
           !.absenceDays = @ + Inc(~isFriday /\ record.status = "Absent"),
           !.excusedAbsenceDays = @ + NumberOrZero(record.excusedAbsenceDays),
           !.leaveDeductionDays = @ + NumberOrZero(record.leaveDeductionDays),
           !.terminationPeriodDays = @ + NumberOrZero(record.terminationPeriodDays),
           !.compDaysFriday = @ + NumberOrZero(record.compDaysFriday),
           !.compDaysOfficial = @ + NumberOrZero(record.compDaysOfficial),
           !.compDaysTotal = @ + NumberOrZero(record.compDaysTotal)]
  IN IF ~isFriday /\ record.penalties # <<>>
       THEN penaltyTotals(counted, record.penalties)
       ELSE counted

RECURSIVE summaryForEach(_, _)
\* records.forEach over summaryByEmployee, a Map in insertion order: the
\* summary of the record's employeeCode is fetched or created, counted into
\* and set back
summaryForEach(summaryByEmployee, records) ==
  IF records = <<>> THEN summaryByEmployee
  ELSE LET record == Head(records)
           known == {i \in 1..Len(summaryByEmployee) :
                       summaryByEmployee[i].code = record.employeeCode}
       IN IF known = {}
            THEN summaryForEach(
                   Append(summaryByEmployee,
                          countedRecord(newSummary(record.employeeCode), record)),
                   Tail(records))
            ELSE summaryForEach(
                   [i \in 1..Len(summaryByEmployee) |->
                      IF i \in known THEN countedRecord(summaryByEmployee[i], record)
                      ELSE summaryByEmployee[i]],
                   Tail(records))

\* one data row of the summary table, lines 289-316
summaryRow(summary) ==
  LET summaryAbsenceTotal == summary.absenceDays * 2 + summary.excusedAbsenceDays
      summaryPenaltiesTotal ==
        summary.totalLate + summary.totalEarlyLeave + summary.totalMissingStamp
          + 100 * (summaryAbsenceTotal + summary.leaveDeductionDays)
  IN [code |-> summary.code,
      workDays |-> summary.workDays,
      fridays |-> summary.fridays,
      fridayAttendance |-> summary.fridayAttendance,
      officialLeaves |-> summary.officialLeaves,
      hrLeaves |-> summary.hrLeaves,
      absenceDays |-> summary.absenceDays,
      excusedAbsenceDays |-> summary.excusedAbsenceDays,
      leaveDeductionDays |-> summary.leaveDeductionDays,
      terminationPeriodDays |-> summary.terminationPeriodDays,
      summaryAbsenceTotal |-> summaryAbsenceTotal,
      officialHolidayDays |-> summary.officialHolidayDays,
      officialHolidayAttendance |-> summary.officialHolidayAttendance,
      compDaysFriday |-> summary.compDaysFriday,
      compDaysOfficial |-> summary.compDaysOfficial,
      compDaysTotal |-> summary.compDaysTotal,
      totalLate |-> summary.totalLate,
      totalEarlyLeave |-> summary.totalEarlyLeave,
      totalMissingStamp |-> summary.totalMissingStamp,
      summaryPenaltiesTotal |-> summaryPenaltiesTotal]

\* the data rows of summaryRows (the header row is summaryHeaders)
buildAttendanceExportRows(records) ==
  LET summaries == summaryForEach(<<>>, records)
  IN [k \in 1..Len(summaries) |-> summaryRow(summaries[k])]

\* attendance records handed to the export
ExportRow(code, date, status, penalties, counts) ==
  counts @@
  [employeeCode |-> code, date |-> date, status |-> status, penalties |-> penalties,
   checkIn |-> Null, checkOut |-> Null, totalHours |-> 0, notes |-> "",
   missionStart |-> Null, missionEnd |-> Null,
   isOfficialHoliday |-> FALSE, workedOnOfficialHoliday |-> Null,
   leaveDeductionDays |-> Some(0), excusedAbsenceDays |-> Some(0),
   terminationPeriodDays |-> Some(0),
   compDaysFriday |-> Null, compDaysOfficial |-> Null, compDaysTotal |-> Null]

ExportPool ==
  { ExportRow(Code31, 1, "Absent", <<[type |-> PenaltyAbsence, value |-> 100]>>, <<>>),
    ExportRow(Code31, 0, "Absent", <<[type |-> PenaltyAbsence, value |-> 100]>>, <<>>),
    ExportRow(Code31, 2, "Excused Absence", <<>>, [excusedAbsenceDays |-> Some(1)]),
    ExportRow(Code31, 0, "Friday Attended", <<>>,
              [checkIn |-> Some(At(0, 9, 0)), compDaysFriday |-> Some(1),
               compDaysTotal |-> Some(1)]),
    ExportRow(Code31, 3, "Termination Period", <<>>, [terminationPeriodDays |-> Some(1)]),
    ExportRow(Code7, 1, "Absent", <<[type |-> PenaltyAbsence, value |-> 100]>>, <<>>),
    ExportRow(Code7, 2, "Late",
              <<[type |-> PenaltyLate, value |-> 25],
                [type |-> PenaltyEarlyLeave, value |-> 50]>>,
              [checkIn |-> Some(At(2, 9, 40)), checkOut |-> Some(At(2, 16, 0)),
               totalHours |-> 6]),
    ExportRow(Code7, 3, "Comp Day", <<>>, [notes |-> "Official Leave"]),
    ExportRow(Code7, 4, "Present", <<>>,
              [isOfficialHoliday |-> TRUE, checkIn |-> Some(At(4, 9, 0)),
               compDaysOfficial |-> Some(1), compDaysTotal |-> Some(1)]),
    ExportRow(Code7, 5, "Leave Deduction", <<>>,
              [leaveDeductionDays |-> Some(1), excusedAbsenceDays |-> Null]) }

ExportInit ==
  /\ \E n \in 0..MaxExportRecords : \E list \in [1..n -> ExportPool] :
       attendanceRecords = list
  /\ employees = <<>>
  /\ punches = <<>>
  /\ rules = <<>>
  /\ adjustments = <<>>
  /\ leaves = <<>>
  /\ nextIds = [employee |-> 1, rule |-> 1, adjustment |-> 1, leave |-> 1, record |-> 1]
  /\ lastRun = Null

CallBuildAttendanceExportRows ==
  /\ lastRun = Null
  /\ lastRun' = Some([call |-> "buildAttendanceExportRows",
                      records |-> attendanceRecords,
                      summaryRows |-> buildAttendanceExportRows(attendanceRecords)])
  /\ UNCHANGED <<employees, punches, rules, adjustments, leaves, attendanceRecords, nextIds>>

ExportNext == CallBuildAttendanceExportRows

ExportSpec == ExportInit /\ [][ExportNext]_vars

(***************************************************************************)
(* Scope handling on its own: one rule with a scope string and one         *)
(* employee are drawn, then the scope is parsed, matched against the       *)
(* employee, or put through the rule filter of a day.  lastRun holds the   *)
(* call and what it returned.                                              *)
(***************************************************************************)
E031 == [id |-> 3, code |-> <<"0">> \o Code31, sector |-> <<"s", "a", "l", "e", "s">>,
         department |-> <<"I", "T">>, section |-> <<"A">>, branch |-> <<"C">>,
         shiftStart |-> <<"0", "9", ":", "0", "0">>, terminationDate |-> Null]
ScopeEmployees == {E31, E7, E031}
ScopePool ==
  { <<>>,
    ScopeAll,
    PrefixEmp \o Code31,
    PrefixEmp \o <<"0">> \o Code31,
    PrefixEmp \o <<"0", "3", "1", ",", " ", "3", "1", " ", ",", "5", "1", "5">>,
    PrefixEmp \o <<" ", ",", "7", ",">>,
    PrefixEmp,
    PrefixDept \o <<"I", "T">>,
    PrefixSector \o SectorCollections,
    <<"b", "r", "a", "n", "c", "h", ":", "C">> }

ScopeInit ==
  /\ \E employee \in ScopeEmployees : employees = <<employee>>
  /\ \E scope \in ScopePool :
       rules = <<[id |-> 1] @@ RuleRow(scope, "overnight_stay", 1, MaxDay, 1, NoParams)>>
  /\ punches = <<>>
  /\ adjustments = <<>>
  /\ leaves = <<>>
  /\ attendanceRecords = <<>>
  /\ nextIds = [employee |-> 2, rule |-> 2, adjustment |-> 1, leave |-> 1, record |-> 1]
  /\ lastRun = Null

scopeCall(name, d, result) ==
  /\ lastRun' = Some([call |-> name, scope |-> rules[1].scope, employee |-> employees[1],
                       date |-> d, result |-> result])
  /\ UNCHANGED <<employees, punches, rules, adjustments, leaves, attendanceRecords, nextIds>>

\* parseRuleScope(rule.scope)
CallParseRuleScope ==
  /\ lastRun = Null
  /\ scopeCall("parseRuleScope", 0, parseRuleScope(rules[1].scope))
\* parseEmpScope(rule.scope)
CallParseEmpScope ==
  /\ lastRun = Null
  /\ scopeCall("parseEmpScope", 0, parseEmpScope(rules[1].scope))
\* matchesRuleScope(rule.scope, employee)
CallMatchesRuleScope ==
  /\ lastRun = Null
  /\ scopeCall("matchesRuleScope", 0, matchesRuleScope(rules[1].scope, employees[1]))
\* const activeRules = rules.filter(...).sort(...) for the employee on day d
FilterActiveRules(d) ==
  /\ lastRun = Null
  /\ scopeCall("activeRules", d, activeRulesOf(rules, employees[1], d))

ScopeNext ==
  \/ CallParseRuleScope
  \/ CallParseEmpScope
  \/ CallMatchesRuleScope
  \/ \E d \in Days : FilterActiveRules(d)

ScopeSpec == ScopeInit /\ [][ScopeNext]_vars

(***************************************************************************)
(* The adjustment engine on its own: a day's adjustment list is drawn,     *)
(* then one of its time strings is normalized or parsed, or the whole list *)
(* is folded by computeAdjustmentEffects.  lastRun holds the call and what *)
(* it returned.                                                            *)
(***************************************************************************)
MaxEffects == 3
\* time strings with a non-numeric hour, minute or second
BadHour == <<"a", "b", ":", "0", "0">>
BadMinute == <<"1", "0", ":", "x", "x">>
BadSecond == <<"1", "0", ":", "0", "0", ":", "z", "z">>
EffectRow(type, from, to) == AdjRow(Code31, 1, type, from, to)
EffectsPool ==
  { EffectRow(AdjMorningPermission, Hm("0", "9", "0", "0"), Hm("1", "0", "0", "0")),
    EffectRow(AdjMorningPermission, Hm("1", "3", "0", "0"), Hm("1", "5", "0", "0")),
    EffectRow(AdjEveningPermission, Hm("1", "5", "0", "0"), Hm("1", "7", "0", "0")),
    EffectRow(AdjHalfDayLeave, Hm("0", "9", "0", "0"), Hm("1", "3", "0", "0")),
    EffectRow(AdjHalfDayLeave, Hm("1", "3", "0", "0"), Hm("1", "7", "0", "0")),
    EffectRow(AdjHalfDayLeave, Hm("0", "9", "0", "0"), Hm("1", "7", "0", "0")),
    EffectRow(AdjMission, Hm("1", "0", "0", "0"), Hm("1", "4", "0", "0")),
    EffectRow(AdjMission, Hm("1", "2", "0", "0"), BadMinute),
    EffectRow(AdjMorningPermission, BadHour, Hm("1", "0", "0", "0")),
    EffectRow(AdjEveningPermission, Hm("1", "6", "0", "0"), BadSecond) }
EffectTimes == {row.fromTime : row \in EffectsPool} \cup {row.toTime : row \in EffectsPool}
\* the nominal shifts and the check-in / check-out seconds of a call
EffectShifts ==
  { [shiftStart |-> DefaultShiftStart, shiftEnd |-> DefaultShiftEnd],
    [shiftStart |-> SaturdayShiftStart, shiftEnd |-> SaturdayShiftEnd] }
EffectStamps ==
  { [checkInSeconds |-> Null, checkOutSeconds |-> Null],
    [checkInSeconds |-> Some(9 * 3600 + 300), checkOutSeconds |-> Some(17 * 3600)] }

EffectsInit ==
  /\ \E n \in 0..MaxEffects : \E list \in [1..n -> EffectsPool] : adjustments = list
  /\ employees = <<>>
  /\ punches = <<>>
  /\ rules = <<>>
  /\ leaves = <<>>
  /\ attendanceRecords = <<>>
  /\ nextIds = [employee |-> 1, rule |-> 1, adjustment |-> 1, leave |-> 1, record |-> 1]
  /\ lastRun = Null

\* the time strings of the adjustments: adjustment.fromTime, adjustment.toTime
TimeStringsOf(adjustmentList) ==
  {adjustmentList[k].fromTime : k \in 1..Len(adjustmentList)}
    \cup {adjustmentList[k].toTime : k \in 1..Len(adjustmentList)}

effectsCall(name, args, result) ==
  /\ lastRun' = Some([call |-> name, args |-> args, result |-> result])
  /\ UNCHANGED <<employees, punches, rules, adjustments, leaves, attendanceRecords, nextIds>>

\* normalizeTimeToHms(value)
CallNormalizeTimeToHms(value) ==
  /\ lastRun = Null
  /\ value \in TimeStringsOf(adjustments)
  /\ effectsCall("normalizeTimeToHms", [value |-> value], normalizeTimeToHms(value))
\* timeStringToSeconds(value)
CallTimeStringToSeconds(value) ==
  /\ lastRun = Null
  /\ value \in TimeStringsOf(adjustments)
  /\ effectsCall("timeStringToSeconds", [value |-> value], timeStringToSeconds(value))
\* computeAdjustmentEffects({shiftStart, shiftEnd, adjustments, checkInSeconds, checkOutSeconds})
CallComputeAdjustmentEffects(shift, stamps) ==
  /\ lastRun = Null
  /\ effectsCall("computeAdjustmentEffects",
                 [adjustments |-> adjustments] @@ shift @@ stamps,
                 computeAdjustmentEffects(shift.shiftStart, shift.shiftEnd, adjustments,
                                          stamps.checkInSeconds, stamps.checkOutSeconds))

EffectsNext ==
  \/ \E value \in EffectTimes : CallNormalizeTimeToHms(value)
  \/ \E value \in EffectTimes : CallTimeStringToSeconds(value)
  \/ \E shift \in EffectShifts, stamps \in EffectStamps :
       CallComputeAdjustmentEffects(shift, stamps)

EffectsSpec == EffectsInit /\ [][EffectsNext]_vars

(***************************************************************************)
(* The fuller variant of the engine.  Its source is not among the files    *)
(* modelled above (only its tests and the exporters that read its fields   *)
(* are); the override branches below follow section 4.6 of the design:     *)
(* termination period, full-day deduction adjustments and comp-day         *)
(* crediting are decided ahead of the workday classification, and the      *)
(* invocation takes the official holidays as a further collection.         *)
(***************************************************************************)
\* date >= employee's termination date
inTerminationPeriod(employee, d) ==
  employee.terminationDate # Null /\ d >= Val(employee.terminationDate)

hasAdjustmentOfType(dayAdjustments, type) ==
  \E k \in 1..Len(dayAdjustments) : dayAdjustments[k].type = type

isOfficialHoliday(officialHolidays, d) ==
  \E k \in 1..Len(officialHolidays) : officialHolidays[k].date = d

\* the day counters of a record, all 0: nothing deducted, nothing credited
noDayCounts ==
  [leaveDeductionDays |-> 0, excusedAbsenceDays |-> 0, terminationPeriodDays |-> 0,
   compDaysFriday |-> 0, compDaysOfficial |-> 0]

\* variant: the absence penalty of the classified day is kept
terminationRecord_keepPenalties(credited) ==
  [credited EXCEPT !.status = "Termination Period",
                   !.terminationPeriodDays = 1, !.leaveDeductionDays = 1]

\* "Termination Period": treated as a leave deduction with no absence penalty
terminationRecord(credited) ==
  [credited EXCEPT !.status = "Termination Period", !.penalties = <<>>,
                   !.terminationPeriodDays = 1, !.leaveDeductionDays = 1]

\* variant: the deduction is not counted
leaveDeductionRecord_noCount(credited) ==
  [credited EXCEPT !.status = "Leave Deduction", !.penalties = <<>>]

\* "Leave Deduction": deduction 1, no penalties
leaveDeductionRecord(credited) ==
  [credited EXCEPT !.status = "Leave Deduction", !.penalties = <<>>,
                   !.leaveDeductionDays = 1]

\* "Excused Absence": deduction 1, no penalties
excusedAbsenceRecord(credited) ==
  [credited EXCEPT !.status = "Excused Absence", !.penalties = <<>>,
                   !.excusedAbsenceDays = 1]

\* variant: a worked official holiday is not credited
creditedRecord_fridayOnly(base, holiday) ==
  [compDaysFriday |-> IF base.status = "Friday Attended" THEN 1 ELSE 0] @@ noDayCounts @@ base

\* comp-day crediting: an attended Friday, a worked official holiday
creditedRecord(base, holiday) ==
  [compDaysFriday |-> IF base.status = "Friday Attended" THEN 1 ELSE 0,
   compDaysOfficial |-> IF holiday /\ base.checkIn # Null THEN 1 ELSE 0]
    @@ noDayCounts @@ base

\* the override branches on the credited record of the day: the explicit
\* termination and adjustment facts outrank the derived classification
overrideStatus(employee, credited, dayAdjustments) ==
  IF inTerminationPeriod(employee, credited.date) THEN terminationRecord(credited)
  ELSE IF hasAdjustmentOfType(dayAdjustments, AdjLeaveDeduction)
    THEN leaveDeductionRecord(credited)
  ELSE IF hasAdjustmentOfType(dayAdjustments, AdjExcusedAbsence) /\ credited.checkIn = Null
    THEN excusedAbsenceRecord(credited)
  ELSE credited

overrideRecord(employee, base, dayAdjustments, holiday) ==
  overrideStatus(employee, creditedRecord(base, holiday), dayAdjustments)

\* the employee a record belongs to: the first of the list with its code
employeeOfRecord(employeeList, record) ==
  employeeList[CHOOSE e \in 1..Len(employeeList) :
                 /\ employeeList[e].code = record.employeeCode
                 /\ \A f \in 1..(e - 1) : employeeList[f].code # record.employeeCode]

overrideAll(classified, employeeList, adjustmentList, officialHolidays) ==
  [i \in 1..Len(classified) |->
     overrideRecord(employeeOfRecord(employeeList, classified[i]),
                    classified[i],
                    dayAdjustmentsOf(adjustmentList,
                                     employeeOfRecord(employeeList, classified[i]),
                                     classified[i].date),
                    isOfficialHoliday(officialHolidays, classified[i].date))]

\* processAttendance(employees, punches, rules, leaves, officialHolidays,
\* adjustments, startDate, endDate, timezoneOffsetMinutes) of the fuller variant
processAttendanceFull(employeeList, punchList, ruleList, leaveList, officialHolidays, adjustmentList, startDate, endDate, timezoneOffsetMinutes) ==
  overrideAll(
    processAttendanceRecords(employeeList, punchList, ruleList, leaveList, adjustmentList,
                             startDate, endDate, timezoneOffsetMinutes),
    employeeList, adjustmentList, officialHolidays)

\* the rows of the pools this variant is run on: the daytime punches, the
\* full-day deduction adjustments, the exempt rule and the leaves
FullItems ==
  {i \in 1..NumPunches :
     getUTCHours(toLocal(PunchPool[i].punchDatetime, DefaultOffsetMinutes)) >= 8}
  \cup {NumPunches + i : i \in {k \in 1..NumAdjustments :
           AdjustmentPool[k].type \in {AdjExcusedAbsence, AdjLeaveDeduction}}}
  \cup {NumPunches + NumAdjustments + i : i \in {k \in 1..NumRules :
           RulePool[k].ruleType = "attendance_exempt"}}
  \cup {NumPunches + NumAdjustments + NumRules + i : i \in 1..NumLeaves}
\* the lists of official holidays of a call: none, the Saturday, the Sunday
HolidayLists == {<<>>, <<[id |-> 1, date |-> 1]>>, <<[id |-> 1, date |-> 2]>>}

FullInit ==
  /\ Init
  /\ \A i \in 1..Len(punches) : \E k \in FullItems : k <= NumPunches /\ PunchPool[k] = [employeeCode |-> punches[i].employeeCode, punchDatetime |-> punches[i].punchDatetime]
  /\ \A i \in 1..Len(adjustments) : adjustments[i].type \in {AdjExcusedAbsence, AdjLeaveDeduction}
  /\ \A i \in 1..Len(rules) : rules[i].ruleType = "attendance_exempt"

\* one call of the fuller variant on the collections
RunFullEngine(startDate, endDate, timezoneOffsetMinutes, officialHolidays) ==
  /\ lastRun = Null
  /\ lastRun' = Some([officialHolidays |-> officialHolidays,
                       records |-> processAttendanceFull(employees, punches, rules, leaves,
                                     officialHolidays, adjustments, startDate, endDate,
                                     timezoneOffsetMinutes)]
                      @@ engineCall(startDate, endDate, timezoneOffsetMinutes))
  /\ UNCHANGED <<employees, punches, rules, adjustments, leaves, attendanceRecords, nextIds>>

FullNext ==
  \E r \in Ranges, tz \in Offsets, officialHolidays \in HolidayLists :
    RunFullEngine(r[1], r[2], tz, officialHolidays)

FullSpec == FullInit /\ [][FullNext]_vars

(***************************************************************************)
(* Properties.  lastRun holds the last call of processAttendanceRecords:   *)
(* its inputs, its arguments and the list it returned.                     *)
(***************************************************************************)
RunDone == lastRun # Null
Run == Val(lastRun)
RunOffset == offsetMinutesOf(Run.timezoneOffsetMinutes)
RunDays == Run.startDate..Run.endDate
RunEmployees == 1..Len(Run.employees)
UniqueCodes ==
  \A a, b \in RunEmployees : Run.employees[a].code = Run.employees[b].code => a = b
\* the positions of the returned records of employee e on day d
RecordsOf(e, d) ==
  {i \in 1..Len(Run.records) :
     Run.records[i].employeeCode = Run.employees[e].code /\ Run.records[i].date = d}
\* the input punches of employee e bucketed by local day, before any reassignment
InputBuckets(e) == initialBuckets(Run.employees[e], Run.punches, RunOffset)
InputPunchesOn(e, d) == MapGet(InputBuckets(e), d, <<>>)
\* the maps of employee e after the overnight loop of the call
OvernightState(e) ==
  afterOvernight(Run.employees[e], Run.punches, Run.startDate, Run.endDate, RunOffset)
AdjustmentsOn(e, d) ==
  SelectSeq(Run.adjustments,
            LAMBDA adjustment : adjustment.employeeCode = Run.employees[e].code
                                  /\ adjustment.date = d)
ActiveRulesOn(e, d) == activeRulesOf(Run.rules, Run.employees[e], d)
LeaveDay(e, d) ==
  \/ \E i \in 1..Len(Run.leaves) : appliesLeave(Run.leaves[i], d, Run.employees[e])
  \/ findRule(ActiveRulesOn(e, d), "attendance_exempt") # Null
OvernightStayOn(e, d) == findRule(ActiveRulesOn(e, d), "overnight_stay") # Null
NominalShift(e, d) == currentShift(ActiveRulesOn(e, d), d)
\* local wall-clock seconds counted from 00:00 of day d
LocalSecondsFrom(d, t) == toLocal(t, RunOffset) - d * SecondsPerDay

\* C1: with unique employee codes, a call over [startDate, endDate] returns
\* exactly one record for every (employee, day of the range) and no record
\* for any other pair, whichever branch classifies the day.
C1_OneRecordPerEmployeeDay ==
  (RunDone /\ UniqueCodes) =>
    /\ \A e \in RunEmployees, d \in RunDays : Cardinality(RecordsOf(e, d)) = 1
    /\ \A i \in 1..Len(Run.records) :
         \E e \in RunEmployees, d \in RunDays : i \in RecordsOf(e, d)

\* a call for two employees over the three days in which the Friday branch,
\* the workday branch and the absent fallback each produced a record
C1_Witness ==
  /\ RunDone /\ UniqueCodes
  /\ Len(Run.employees) = 2 /\ Run.startDate = 0 /\ Run.endDate = MaxDay
  /\ \E i \in 1..Len(Run.records) : Run.records[i].status \in {"Friday", "Friday Attended"}
  /\ \E i \in 1..Len(Run.records) :
       Run.records[i].status \in {"Present", "Late"} /\ Run.records[i].checkIn # Null
  /\ \E e \in RunEmployees, d \in RunDays :
       /\ getUTCDay(d) # Friday /\ ~LeaveDay(e, d)
       /\ InputPunchesOn(e, d) = <<>> /\ AdjustmentsOn(e, d) = <<>>
       /\ \E i \in RecordsOf(e, d) : Run.records[i].status = "Absent"

\* C2: after any sequence of store actions, attendanceRecords holds at most
\* one record per (employeeCode, date).
C2_StoredKeysUnique ==
  \A i, j \in 1..Len(attendanceRecords) :
    recordKey(attendanceRecords[i]) = recordKey(attendanceRecords[j]) => i = j

\* several records are stored and more ids were issued than records are
\* stored: a later processAttendance replaced records of an earlier one
C2_Witness ==
  /\ Len(attendanceRecords) >= 2
  /\ nextIds.record > Len(attendanceRecords) + 1
  /\ \E i, j \in 1..Len(attendanceRecords) :
       attendanceRecords[i].date # attendanceRecords[j].date

\* a step of processAttendance (no other store action changes one of these)
ProcessStep ==
  \/ lastRun' # lastRun
  \/ nextIds'.record # nextIds.record
  \/ attendanceRecords' # attendanceRecords

\* C3: processAttendance over [startDate, endDate] keeps every stored record
\* dated outside the range as it was (fields and id), every record stored
\* afterwards and dated inside the range is one this run produced, and the
\* input collections are unchanged.
C3_ProcessKeepsOutOfRange ==
  [][ProcessStep =>
       LET call == Val(lastRun')
           produced == assignStoreIds(call.records, nextIds.record)
           InRange(record) == record.date >= call.startDate /\ record.date <= call.endDate
       IN /\ \A i \in 1..Len(attendanceRecords) :
               ~InRange(attendanceRecords[i]) =>
                 \E j \in 1..Len(attendanceRecords') :
                   attendanceRecords'[j] = attendanceRecords[i]
          /\ \A j \in 1..Len(attendanceRecords') :
               InRange(attendanceRecords'[j]) =>
                 \E k \in 1..Len(produced) : produced[k] = attendanceRecords'[j]
          /\ UNCHANGED <<employees, punches, rules, adjustments, leaves>>]_vars

\* the store holds a record dated outside the range of the last run, kept
\* from an earlier run, next to records the last run produced
C3_Witness ==
  /\ RunDone
  /\ \E i \in 1..Len(attendanceRecords) :
       /\ attendanceRecords[i].date \notin RunDays
       /\ attendanceRecords[i].id < nextIds.record - Len(Run.records)
  /\ \E j \in 1..Len(attendanceRecords) :
       /\ attendanceRecords[j].date \in RunDays
       /\ attendanceRecords[j].id >= nextIds.record - Len(Run.records)

C5_PunchConservation ==
  RunDone =>
    \A e \in RunEmployees :
      LET S == OvernightState(e) IN
        \A i \in 1..Len(Run.punches) :
          ( /\ Run.punches[i].employeeCode = Run.employees[e].code
            /\ formatLocalDay(toLocal(Run.punches[i].punchDatetime, RunOffset)) \in RunDays )
          => Cardinality({d \in DOMAIN S.punchesByDate :
                            \E k \in 1..Len(effectiveDayPunches(S, d)) :
                              effectiveDayPunches(S, d)[k] = Run.punches[i]}) = 1

\* day D has exactly one input punch and day D + 1 exactly one, whose local
\* hour is in [0, 5] and which is no early-shift-edge punch
OvernightPair(e, D) ==
  /\ Len(InputPunchesOn(e, D)) = 1
  /\ Len(InputPunchesOn(e, D + 1)) = 1
  /\ LET local == toLocal(InputPunchesOn(e, D + 1)[1].punchDatetime, RunOffset)
     IN /\ getUTCHours(local) >= 0 /\ getUTCHours(local) <= 5
        /\ ~isEarlyShiftEdge(local, shiftStartHourOf(Run.employees[e]))
\* "HH:MM" of a local instant, digit by digit
ClockLabel(local) ==
  LET hh == (local % SecondsPerDay) \div SecondsPerHour
      mm == (local % SecondsPerHour) \div 60
  IN <<Digits[(hh \div 10) + 1], Digits[(hh % 10) + 1], ":",
       Digits[(mm \div 10) + 1], Digits[(mm % 10) + 1]>>
\* the only punch of D + 1 is what closes D, and D + 1 is left without data
MovedToPreviousDay(e, D) ==
  LET punch == InputPunchesOn(e, D + 1)[1]
      local == toLocal(punch.punchDatetime, RunOffset)
  IN /\ \A i \in RecordsOf(e, D) :
          /\ Run.records[i].checkOut = Some(punch.punchDatetime)
          /\ \E n \in 1..Len(Run.records[i].notes) :
               /\ Run.records[i].notes[n].text = NoteAfterMidnight
               /\ Run.records[i].notes[n].time = ClockLabel(local)
     /\ ( /\ AdjustmentsOn(e, D + 1) = <<>>
          /\ getUTCDay(D + 1) # Friday
          /\ ~LeaveDay(e, D + 1) )
        => \A i \in RecordsOf(e, D + 1) : Run.records[i].status = "Absent"
\* the punch of day D was not itself reassigned to day D - 1
PunchStaysOn(e, D) ==
  buildPunchConsumptionKey(InputPunchesOn(e, D)[1].employeeCode,
                           InputPunchesOn(e, D)[1].punchDatetime)
    \notin MapGet(OvernightState(e).consumedPunchesByDate, D, {})

\* C6 as stated: if day D has exactly one punch and day D + 1, inside the
\* range, exactly one punch with local hour in [0, 5] that is no
\* early-shift-edge punch, the punch is moved to D: the record of D has it
\* as checkOut and a note "after midnight HH:MM", and D + 1, without
\* adjustments and neither Friday nor leave, is "Absent".
C6_OvernightMoved_AsStated ==
  RunDone =>
    \A e \in RunEmployees, D \in (Run.startDate - 1)..(Run.endDate - 1) :
      OvernightPair(e, D) => MovedToPreviousDay(e, D)

\* C6: the same, for a day D whose own punch is not reassigned to D - 1 and
\* on which no overnight_stay rule is active for the employee.
C6_OvernightMoved ==
  RunDone =>
    \A e \in RunEmployees, D \in (Run.startDate - 1)..(Run.endDate - 1) :
      (OvernightPair(e, D) /\ PunchStaysOn(e, D) /\ ~OvernightStayOn(e, D))
        => MovedToPreviousDay(e, D)

\* a 22:10 punch on D and a 00:30 punch on D + 1, both days in the range:
\* the record of D is closed by the 00:30 punch and D + 1 is "Absent"
C6_Witness ==
  /\ RunDone
  /\ \E e \in RunEmployees, D \in Run.startDate..(Run.endDate - 1) :
       /\ OvernightPair(e, D) /\ PunchStaysOn(e, D) /\ ~OvernightStayOn(e, D)
       /\ \E i \in RecordsOf(e, D) :
            Run.records[i].checkOut = Some(InputPunchesOn(e, D + 1)[1].punchDatetime)
       /\ AdjustmentsOn(e, D + 1) = <<>> /\ getUTCDay(D + 1) # Friday /\ ~LeaveDay(e, D + 1)
       /\ \E i \in RecordsOf(e, D + 1) : Run.records[i].status = "Absent"

\* not Friday, no punches, no adjustments, no matching leave, no active
\* attendance_exempt rule
NoDataDay(e, d) ==
  /\ getUTCDay(d) # Friday
  /\ InputPunchesOn(e, d) = <<>>
  /\ AdjustmentsOn(e, d) = <<>>
  /\ ~LeaveDay(e, d)

\* C7: a no-data day yields status "Absent", penalties exactly one absence
\* penalty of value 1, checkIn and checkOut null and totalHours 0.
C7_NoDataDayAbsent ==
  RunDone =>
    \A e \in RunEmployees, d \in RunDays :
      NoDataDay(e, d) =>
        /\ RecordsOf(e, d) # {}
        /\ \A i \in RecordsOf(e, d) :
             /\ Run.records[i].status = "Absent"
             /\ Run.records[i].penalties = <<[type |-> PenaltyAbsence, value |-> 100]>>
             /\ Run.records[i].checkIn = Null
             /\ Run.records[i].checkOut = Null
             /\ Run.records[i].totalHours = 0

\* a no-data day inside the range of a call that also has punches on another day
C7_Witness ==
  /\ RunDone
  /\ Len(Run.punches) > 0
  /\ \E e \in RunEmployees, d \in RunDays :
       /\ NoDataDay(e, d)
       /\ \E i \in RecordsOf(e, d) : Run.records[i].status = "Absent"

\* not Friday, not a leave day, no adjustments, no overnight_stay rule
PlainWorkday(e, d) ==
  /\ getUTCDay(d) # Friday
  /\ ~LeaveDay(e, d)
  /\ AdjustmentsOn(e, d) = <<>>
  /\ ~OvernightStayOn(e, d)
\* check-in at most 15 minutes after the shift start and check-out at most
\* 15 minutes before the shift end
WithinGrace(e, d, record) ==
  /\ record.checkIn # Null
  /\ record.checkOut # Null
  /\ LocalSecondsFrom(d, Val(record.checkIn))
       <= timeStringToSeconds(NominalShift(e, d).shiftStart) + 15 * 60
  /\ LocalSecondsFrom(d, Val(record.checkOut))
       >= timeStringToSeconds(NominalShift(e, d).shiftEnd) - 15 * 60

\* C8: on a plain workday with check-in no later than shift start + 15 min
\* and check-out no earlier than shift end - 15 min, the record is
\* "Present", has no penalties and totalHours = checkOut - checkIn.
C8_NormalDayPresent ==
  RunDone =>
    \A e \in RunEmployees, d \in RunDays :
      PlainWorkday(e, d) =>
        \A i \in RecordsOf(e, d) :
          WithinGrace(e, d, Run.records[i]) =>
            /\ Run.records[i].status = "Present"
            /\ Run.records[i].penalties = <<>>
            /\ Run.records[i].totalHours
                 = Val(Run.records[i].checkOut) - Val(Run.records[i].checkIn)

\* a plain workday with punches inside the grace on both ends and worked time
C8_Witness ==
  /\ RunDone
  /\ \E e \in RunEmployees, d \in RunDays :
       /\ PlainWorkday(e, d)
       /\ \E i \in RecordsOf(e, d) :
            /\ WithinGrace(e, d, Run.records[i])
            /\ Run.records[i].status = "Present"
            /\ Run.records[i].totalHours > 0

\* the effects of the day's adjustments on the shift
ShiftEffects(e, d) ==
  computeAdjustmentEffects(NominalShift(e, d).shiftStart, NominalShift(e, d).shiftEnd,
                           AdjustmentsOn(e, d), Null, Null)
\* a day of the workday branch or of the fallback that nothing excuses
NotExcusedDay(e, d, record) ==
  /\ getUTCDay(d) # Friday
  /\ ~LeaveDay(e, d)
  /\ ~OvernightStayOn(e, d)
  /\ \A k \in 1..Len(AdjustmentsOn(e, d)) : AdjustmentsOn(e, d)[k].type # AdjMission
  /\ ~(ShiftEffects(e, d).halfDayExcused /\ record.checkIn = Null /\ record.checkOut = Null)
\* seconds between the effective shift start and the check-in
LateBy(e, d, record) ==
  LocalSecondsFrom(d, Val(record.checkIn)) - ShiftEffects(e, d).effectiveShiftStartSeconds
LatePenalties(record) ==
  {k \in 1..Len(record.penalties) : record.penalties[k].type = PenaltyLate}

\* C9: on a day that is not excused, status is "Late" exactly when the
\* check-in is more than 15 minutes after the effective shift start; then
\* there is one lateness penalty, of value 1 above 60 minutes, 0.5 above 30
\* and 0.25 otherwise; a single-punch day also has the missing-stamp
\* penalty 0.5.
C9_LatenessTiers ==
  RunDone =>
    \A e \in RunEmployees, d \in RunDays :
      \A i \in RecordsOf(e, d) :
        LET record == Run.records[i]
            late == record.checkIn # Null /\ LateBy(e, d, record) > 15 * 60
        IN NotExcusedDay(e, d, record) =>
             /\ (record.status = "Late") <=> late
             /\ late =>
                  /\ Cardinality(LatePenalties(record)) = 1
                  /\ \A k \in LatePenalties(record) :
                       record.penalties[k].value =
                         IF LateBy(e, d, record) > 60 * 60 THEN 100
                         ELSE IF LateBy(e, d, record) > 30 * 60 THEN 50
                         ELSE 25
             /\ (record.checkIn # Null /\ record.checkOut = Null) =>
                  \E k \in 1..Len(record.penalties) :
                    /\ record.penalties[k].type = PenaltyMissingStamp
                    /\ record.penalties[k].value = 50

\* a single punch more than an hour after the shift start: "Late", the
\* lateness penalty 1 and the missing-stamp penalty
C9_Witness ==
  /\ RunDone
  /\ \E e \in RunEmployees, d \in RunDays :
       \E i \in RecordsOf(e, d) :
         /\ NotExcusedDay(e, d, Run.records[i])
         /\ Run.records[i].checkIn # Null /\ Run.records[i].checkOut = Null
         /\ LateBy(e, d, Run.records[i]) > 60 * 60
         /\ Run.records[i].status = "Late"
         /\ Len(Run.records[i].penalties) = 2

MissionsOn(e, d) ==
  SelectSeq(AdjustmentsOn(e, d), LAMBDA adjustment : adjustment.type = AdjMission)
\* the latest toTime of the day's missions, in seconds
LatestMissionEnd(e, d) ==
  LET ends == {timeStringToSeconds(MissionsOn(e, d)[k].toTime) :
                 k \in 1..Len(MissionsOn(e, d))}
  IN CHOOSE x \in ends : \A y \in ends : y <= x

\* C10: on a non-Friday, non-leave day with a mission adjustment the record
\* has no penalties, whatever the punches; its status is "Present" when the
\* latest mission end is at or after the nominal shift end, else "Excused".
C10_MissionSuppressesPenalties ==
  RunDone =>
    \A e \in RunEmployees, d \in RunDays :
      (getUTCDay(d) # Friday /\ ~LeaveDay(e, d) /\ MissionsOn(e, d) # <<>>) =>
        \A i \in RecordsOf(e, d) :
          /\ Run.records[i].penalties = <<>>
          /\ Run.records[i].status =
               IF LatestMissionEnd(e, d) >= timeStringToSeconds(NominalShift(e, d).shiftEnd)
                 THEN "Present" ELSE "Excused"

\* two missions on a day with a punch after the grace: no penalty, and the
\* later mission end reaches the shift end
C10_Witness ==
  /\ RunDone
  /\ \E e \in RunEmployees, d \in RunDays :
       /\ getUTCDay(d) # Friday /\ ~LeaveDay(e, d) /\ Len(MissionsOn(e, d)) = 2
       /\ \E i \in RecordsOf(e, d) :
            /\ Run.records[i].checkIn # Null
            /\ LateBy(e, d, Run.records[i]) > 15 * 60
            /\ Run.records[i].status = "Present"

\* some input punch of employee e falls on local day d with a time of day
\* inside 11:00-16:00 or 12:00-17:00 (such a punch is never reassigned)
AttendingPunchOn(e, d) ==
  \E k \in 1..Len(Run.punches) :
    /\ Run.punches[k].employeeCode = Run.employees[e].code
    /\ LocalSecondsFrom(d, Run.punches[k].punchDatetime) >= 11 * 3600
    /\ LocalSecondsFrom(d, Run.punches[k].punchDatetime) <= 17 * 3600

\* C11: the record of a Friday or of a leave day has no penalties and no
\* overtime, whatever the punches and adjustments; on a Friday the status is
\* "Friday Attended" exactly when a punch of the day lies in one of the two
\* attendance windows, otherwise "Friday" with totalHours 0; on a leave day
\* that is not a Friday the status is "Comp Day".
C11_FridayLeavePrecedence ==
  RunDone =>
    \A e \in RunEmployees, d \in RunDays :
      (getUTCDay(d) = Friday \/ LeaveDay(e, d)) =>
        /\ RecordsOf(e, d) # {}
        /\ \A i \in RecordsOf(e, d) :
             /\ Run.records[i].penalties = <<>>
             /\ Run.records[i].overtimeHours = 0
             /\ IF getUTCDay(d) = Friday
                  THEN /\ Run.records[i].status =
                            (IF AttendingPunchOn(e, d) THEN "Friday Attended" ELSE "Friday")
                       /\ (~AttendingPunchOn(e, d) => Run.records[i].totalHours = 0)
                  ELSE Run.records[i].status = "Comp Day"

\* one call over a Friday and a leave day that carries a punch and an
\* adjustment and became a comp day
C11_Witness ==
  /\ RunDone
  /\ \E e \in RunEmployees, d \in RunDays :
       /\ getUTCDay(d) = Friday
       /\ \E i \in RecordsOf(e, d) : Run.records[i].status = "Friday"
  /\ \E e \in RunEmployees, d \in RunDays :
       /\ getUTCDay(d) # Friday /\ LeaveDay(e, d)
       /\ InputPunchesOn(e, d) # <<>> /\ AdjustmentsOn(e, d) # <<>>
       /\ \E i \in RecordsOf(e, d) : Run.records[i].status = "Comp Day"

\* the positions in the input of the custom_shift rules whose dates contain d
\* and whose scope the rule filter accepts for employee e
ShiftCandidates(e, d) ==
  {k \in 1..Len(Run.rules) :
     /\ Run.rules[k].ruleType = "custom_shift"
     /\ ruleIsActive(Run.rules[k], Run.employees[e], Trim(Run.employees[e].code), d)}
\* the candidate of highest priority, the earliest in the input among equals
WinningShiftRule(e, d) ==
  CHOOSE k \in ShiftCandidates(e, d) :
    \A j \in ShiftCandidates(e, d) :
      \/ Run.rules[j].priority < Run.rules[k].priority
      \/ Run.rules[j].priority = Run.rules[k].priority /\ k <= j

\* C12: the shift window of an employee-day is shiftStart/shiftEnd of the
\* highest-priority custom_shift rule covering the date and the employee
\* (the earliest in input order among equal priorities); without such a
\* rule it is 10:00-16:00 on a Saturday and 09:00-17:00 on any other day.
C12_ShiftResolution ==
  RunDone =>
    \A e \in RunEmployees, d \in RunDays :
      NominalShift(e, d) =
        IF ShiftCandidates(e, d) # {}
          THEN [shiftStart |-> Run.rules[WinningShiftRule(e, d)].params.shiftStart,
                shiftEnd |-> Run.rules[WinningShiftRule(e, d)].params.shiftEnd]
        ELSE IF getUTCDay(d) = Saturday
          THEN [shiftStart |-> Hm("1", "0", "0", "0"), shiftEnd |-> Hm("1", "6", "0", "0")]
        ELSE [shiftStart |-> Hm("0", "9", "0", "0"), shiftEnd |-> Hm("1", "7", "0", "0")]

\* three custom_shift rules cover one employee-day: two of equal priority
\* and, later in the input, one of higher priority, which wins; a Saturday
\* of the same call has no such rule for some employee
C12_Witness ==
  /\ RunDone
  /\ \E e \in RunEmployees, d \in RunDays :
       /\ Cardinality(ShiftCandidates(e, d)) = 3
       /\ \E j \in ShiftCandidates(e, d) : j < WinningShiftRule(e, d)
       /\ \E j, k \in ShiftCandidates(e, d) :
            j # k /\ Run.rules[j].priority = Run.rules[k].priority
       /\ NominalShift(e, d).shiftStart = Hm("0", "7", "0", "0")
  /\ \E e \in RunEmployees, d \in RunDays :
       getUTCDay(d) = Saturday /\ ShiftCandidates(e, d) = {}

\* the Leave record covers day d and its scope names employee e; a leave
\* of type "collections" counts only for the collections sector
LeaveCovers(leave, e, d) ==
  /\ leave.startDate <= d /\ d <= leave.endDate
  /\ (leave.type = "collections" => Run.employees[e].sector = SectorCollections)
  /\ \/ leave.scope = "all"
     \/ leave.scope = "sector" /\ leave.scopeValue = Run.employees[e].sector
     \/ leave.scope = "department" /\ leave.scopeValue = Run.employees[e].department
     \/ leave.scope = "section" /\ leave.scopeValue = Run.employees[e].section
     \/ leave.scope = "branch" /\ leave.scopeValue = Run.employees[e].branch
     \/ leave.scope = "emp" /\ leave.scopeValue = Run.employees[e].code
\* an attendance_exempt rule is active for employee e on day d
ExemptRuleOn(e, d) ==
  \E k \in 1..Len(Run.rules) :
    /\ Run.rules[k].ruleType = "attendance_exempt"
    /\ ruleIsActive(Run.rules[k], Run.employees[e], Trim(Run.employees[e].code), d)

\* C16: a day that is not a Friday has status "Comp Day" exactly when an
\* attendance_exempt rule is active for the employee or a Leave record
\* covers the date and the employee; a leave of type "collections" counts
\* only for an employee of the collections sector, whatever its scope.
C16_LeaveResolution ==
  RunDone =>
    \A e \in RunEmployees, d \in RunDays :
      getUTCDay(d) # Friday =>
        /\ RecordsOf(e, d) # {}
        /\ \A i \in RecordsOf(e, d) :
             (Run.records[i].status = "Comp Day") <=>
               (\/ ExemptRuleOn(e, d)
                \/ \E k \in 1..Len(Run.leaves) : LeaveCovers(Run.leaves[k], e, d))

\* a collections leave with scope "all" gives the employee of the
\* collections sector a comp day and leaves the other employee, who has a
\* punch that day, on the workday branch
C16_Witness ==
  /\ RunDone
  /\ \E k \in 1..Len(Run.leaves), d \in RunDays, a, b \in RunEmployees :
       /\ Run.leaves[k].type = "collections" /\ Run.leaves[k].scope = "all"
       /\ getUTCDay(d) # Friday
       /\ Run.employees[a].sector = SectorCollections
       /\ Run.employees[b].sector # SectorCollections
       /\ \E i \in RecordsOf(a, d) : Run.records[i].status = "Comp Day"
       /\ \E i \in RecordsOf(b, d) : Run.records[i].status \notin {"Comp Day", "Absent"}

\* whole hours of the check-out beyond one hour after the effective shift
\* end, both taken as local wall-clock times of day d
OvertimeDue(e, d, record) ==
  Max2(0, (LocalSecondsFrom(d, Val(record.checkOut))
             - (ShiftEffects(e, d).effectiveShiftEndSeconds + 3600)) \div 3600)

\* C17: a workday record with a check-out, on a day without an overnight_stay
\* rule, has overtimeHours = max(0, floor((checkOut - (effectiveShiftEnd + 1
\* hour)) / 1 hour)), for every timezone offset.
C17_Overtime ==
  RunDone =>
    \A e \in RunEmployees, d \in RunDays :
      (getUTCDay(d) # Friday /\ ~LeaveDay(e, d) /\ ~OvernightStayOn(e, d)) =>
        \A i \in RecordsOf(e, d) :
          Run.records[i].checkOut # Null =>
            Run.records[i].overtimeHours = OvertimeDue(e, d, Run.records[i])

\* the property of the record as a present value, null when the record has
\* no such property
FieldOf(record, name) == IF name \in DOMAIN record THEN Some(record[name]) ELSE Null

\* day d of employee e lies in the employee's termination period
TerminatedOn(e, d) == inTerminationPeriod(Run.employees[e], d)
HasAdjustmentOn(e, d, type) == hasAdjustmentOfType(AdjustmentsOn(e, d), type)
NoAbsencePenalty(record) ==
  \A k \in 1..Len(record.penalties) : record.penalties[k].type # PenaltyAbsence

EffectiveOn(e, d) == effectiveDayPunches(OvernightState(e), d)
InList(list, punch) == \E k \in 1..Len(list) : list[k] = punch
LocalOf(punch) == toLocal(punch.punchDatetime, RunOffset)
\* a punch whose local hour is in [0, 5] and outside the arrival window
OvernightOnly(e, punch) ==
  /\ getUTCHours(LocalOf(punch)) >= 0 /\ getUTCHours(LocalOf(punch)) <= 5
  /\ ~isNormalArrivalPunch(LocalOf(punch), shiftStartHourOf(Run.employees[e]))
\* when day D is reached, D - 1 holds one punch (nothing can leave it, D - 2
\* being empty) and D holds two overnight punches and no normal arrival, the
\* first of them no early-shift-edge punch
TwoOvernightAfterOne(e, D) ==
  /\ Len(InputPunchesOn(e, D - 1)) = 1
  /\ InputPunchesOn(e, D - 2) = <<>>
  /\ Len(InputPunchesOn(e, D)) = 2
  /\ \A k \in 1..2 : OvernightOnly(e, InputPunchesOn(e, D)[k])
  /\ ~isEarlyShiftEdge(LocalOf(InputPunchesOn(e, D)[1]), shiftStartHourOf(Run.employees[e]))

\* C23: when D - 1 holds one punch and D two overnight punches and no normal
\* arrival, the first overnight punch is moved to D - 1 and the second, which
\* then finds a checkout on D - 1, stays on D.
C23_ForwardPassMutatedBucket ==
  RunDone =>
    \A e \in RunEmployees, D \in RunDays :
      TwoOvernightAfterOne(e, D) =>
        /\ InList(EffectiveOn(e, D - 1), InputPunchesOn(e, D)[1])
        /\ InList(EffectiveOn(e, D), InputPunchesOn(e, D)[2])
        /\ ~InList(EffectiveOn(e, D - 1), InputPunchesOn(e, D)[2])

\* local time of day in 04:30-05:00
InEdgeInterval(punch) ==
  /\ LocalSecondsFrom(formatLocalDay(LocalOf(punch)), punch.punchDatetime) >= 4 * 3600 + 1800
  /\ LocalSecondsFrom(formatLocalDay(LocalOf(punch)), punch.punchDatetime) <= 5 * 3600
\* when day D is reached, D - 1 holds exactly one punch: its only input
\* punch cannot have been moved to D - 2
OnePunchBefore(e, D) ==
  /\ Len(InputPunchesOn(e, D - 1)) = 1
  /\ \/ InputPunchesOn(e, D - 2) = <<>>
     \/ getUTCHours(LocalOf(InputPunchesOn(e, D - 1)[1])) > 5
     \/ D - 1 \notin RunDays
\* no punch of D other than the given one falls in the arrival window
NoOtherArrival(e, D, punch) ==
  \A k \in 1..Len(InputPunchesOn(e, D)) :
    InputPunchesOn(e, D)[k] # punch =>
      ~isNormalArrivalPunch(LocalOf(InputPunchesOn(e, D)[k]), shiftStartHourOf(Run.employees[e]))
\* the midnight note of the punch is among the extra notes of day d
MidnightNoteOn(e, d, punch, D) ==
  InList(MapGet(OvernightState(e).extraNotesByKey, d, <<>>),
         MidnightNote(getUTCHours(LocalOf(punch)), getUTCMinutes(LocalOf(punch)), D))
StaysOn(e, D, punch) ==
  /\ InList(EffectiveOn(e, D), punch)
  /\ ~InList(EffectiveOn(e, D - 1), punch)
  /\ ~MidnightNoteOn(e, D - 1, punch, D)

\* C25: for an employee whose shift starts at hour 7 or earlier, a punch of
\* day D at 04:30-05:00 stays on D, without a midnight note on D - 1, when
\* D - 1 holds exactly one punch and no other punch of D is in the arrival
\* window; and no punch of D is moved when D - 1 holds no punch.
C25_EarlyShiftEdge ==
  RunDone =>
    \A e \in RunEmployees, D \in RunDays :
      \A k \in 1..Len(InputPunchesOn(e, D)) :
        /\ ( /\ shiftStartHourOf(Run.employees[e]) <= 7
             /\ InEdgeInterval(InputPunchesOn(e, D)[k])
             /\ OnePunchBefore(e, D)
             /\ NoOtherArrival(e, D, InputPunchesOn(e, D)[k]) )
           => StaysOn(e, D, InputPunchesOn(e, D)[k])
        /\ InputPunchesOn(e, D - 1) = <<>> => StaysOn(e, D, InputPunchesOn(e, D)[k])
\* a call in which the only punch of day D, at 04:30-05:00, of an employee
\* with shift start 07:00 is the check-in of D after a single punch on D - 1
C25_Witness ==
  /\ RunDone
  /\ \E e \in RunEmployees, D \in RunDays, i \in 1..Len(Run.records) :
       /\ i \in RecordsOf(e, D)
       /\ Len(InputPunchesOn(e, D)) = 1
       /\ shiftStartHourOf(Run.employees[e]) <= 7
       /\ InEdgeInterval(InputPunchesOn(e, D)[1])
       /\ OnePunchBefore(e, D)
       /\ D - 1 \in RunDays
       /\ Run.records[i].checkIn = Some(InputPunchesOn(e, D)[1].punchDatetime)

HasPenalty(record, type) ==
  \E k \in 1..Len(record.penalties) : record.penalties[k].type = type
\* the day is excused for penalties: an overnight_stay rule is active, a
\* mission is present, or a half-day leave excuses a day without punches
ExcusedForPenalties(e, d, record) ==
  \/ OvernightStayOn(e, d)
  \/ MissionsOn(e, d) # <<>>
  \/ ShiftEffects(e, d).halfDayExcused /\ record.checkIn = Null /\ record.checkOut = Null

\* C24: no record has both a missing-stamp and an early-leave penalty; the
\* missing-stamp penalty occurs only with a check-in and no check-out, the
\* early-leave penalty only with a check-out earlier than the effective shift
\* end minus 15 minutes, and neither on a day excused for penalties.
C24_MissingOrEarlyLeave ==
  RunDone =>
    \A e \in RunEmployees, d \in RunDays :
      \A i \in RecordsOf(e, d) :
        /\ ~(HasPenalty(Run.records[i], PenaltyMissingStamp)
               /\ HasPenalty(Run.records[i], PenaltyEarlyLeave))
        /\ HasPenalty(Run.records[i], PenaltyMissingStamp) =>
             Run.records[i].checkIn # Null /\ Run.records[i].checkOut = Null
        /\ HasPenalty(Run.records[i], PenaltyEarlyLeave) =>
             /\ Run.records[i].checkOut # Null
             /\ LocalSecondsFrom(d, Val(Run.records[i].checkOut))
                  < ShiftEffects(e, d).effectiveShiftEndSeconds - 15 * 60
        /\ ExcusedForPenalties(e, d, Run.records[i]) =>
             /\ ~HasPenalty(Run.records[i], PenaltyMissingStamp)
             /\ ~HasPenalty(Run.records[i], PenaltyEarlyLeave)
\* a call with an early-leave penalty on a record with both stamps and a
\* missing-stamp penalty on another record
C24_Witness ==
  /\ RunDone
  /\ \E i \in 1..Len(Run.records) :
       HasPenalty(Run.records[i], PenaltyEarlyLeave) /\ Run.records[i].checkIn # Null
  /\ \E i \in 1..Len(Run.records) : HasPenalty(Run.records[i], PenaltyMissingStamp)

\* C26: on every non-Friday, non-leave day with an active overnight_stay
\* rule the record has no penalties, whether or not the day has punches.
C26_OvernightStayExcuse ==
  RunDone =>
    \A e \in RunEmployees, d \in RunDays :
      (getUTCDay(d) # Friday /\ ~LeaveDay(e, d) /\ OvernightStayOn(e, d)) =>
        \A i \in RecordsOf(e, d) : Run.records[i].penalties = <<>>

\* what the claim compares of two records of the same employee and day
RecordContent(record) ==
  <<record.employeeCode, record.date, record.status, record.checkIn, record.checkOut,
    record.penalties, record.notes>>
\* the records of the same collections processed over the single day D
SingleDayRun(D) ==
  processAttendanceRecords(Run.employees, Run.punches, Run.rules, Run.leaves,
                           Run.adjustments, D, D, Run.timezoneOffsetMinutes)

\* C28: the record of an (employee, date) pair in a call over any range that
\* contains the date is the record a call over [date, date] returns for it:
\* same status, checkIn, checkOut, penalties and notes.
C28_RangeIndependence ==
  RunDone =>
    \A D \in RunDays :
      {RecordContent(Run.records[i]) : i \in {k \in 1..Len(Run.records) : Run.records[k].date = D}}
        = {RecordContent(SingleDayRun(D)[i]) : i \in 1..Len(SingleDayRun(D))}

(***************************************************************************)
(* Properties of scope handling.  Here lastRun holds one call on a scope:  *)
(* parseRuleScope, parseEmpScope, matchesRuleScope or the rule filter.     *)
(***************************************************************************)
ScopeDone == lastRun # Null
Call == Val(lastRun)
\* a code as the claims compare it: trimmed, and without leading zeros when
\* it is a run of digits
ZeroStripped(t) ==
  LET nonZero == {i \in 1..Len(t) : t[i] # "0"}
  IN IF nonZero = {} THEN <<"0">>
     ELSE SubSeq(t, CHOOSE i \in nonZero : \A j \in nonZero : i <= j, Len(t))
CanonicalCode(code) ==
  LET t == Trim(code) IN
    IF t # <<>> /\ \A i \in 1..Len(t) : t[i] \in {Digits[k] : k \in 1..10}
      THEN ZeroStripped(t) ELSE t
\* the comma-separated tokens after "emp:"
ListedCodes(scope) == Split(SubSeq(scope, 5, Len(scope)), ",")
CanonicalListed(scope) ==
  {CanonicalCode(ListedCodes(scope)[i]) : i \in 1..Len(ListedCodes(scope))} \ {<<>>}
IsEmpScope(scope) == Len(scope) >= 4 /\ SubSeq(scope, 1, 4) = <<"e", "m", "p", ":">>
\* the day of the filter call lies in the validity window of the rule
InRuleWindow == Call.date >= rules[1].startDate /\ Call.date <= rules[1].endDate

\* C13: an emp: scope matches an employee whenever a listed code equals the
\* employee's code after trimming and stripping leading zeros on both
\* sides, in matchesRuleScope and in the active-rule filter alike.
C13_EmpCodeNormalized ==
  (ScopeDone /\ IsEmpScope(Call.scope)
     /\ CanonicalCode(Call.employee.code) \in CanonicalListed(Call.scope)) =>
    /\ (Call.call = "matchesRuleScope" => Call.result = TRUE)
    /\ ((Call.call = "activeRules" /\ InRuleWindow) => Call.result = rules)

\* C14: parsing an emp: scope yields the normalized codes of its non-empty
\* tokens, each exactly once.
C14_ScopeDeduplicated ==
  (ScopeDone /\ IsEmpScope(Call.scope)) =>
    /\ (Call.call = "parseEmpScope" => Call.result = CanonicalListed(Call.scope))
    /\ (Call.call = "parseRuleScope" =>
          /\ {Call.result.values[i] : i \in 1..Len(Call.result.values)}
               = CanonicalListed(Call.scope)
          /\ \A i, j \in 1..Len(Call.result.values) :
               Call.result.values[i] = Call.result.values[j] => i = j)

\* C15: a rule with an empty scope string is treated as "all": parseRuleScope
\* returns the all scope, matchesRuleScope accepts every employee, and the
\* rule filter keeps the rule for every employee on every day of its window.
C15_EmptyScopeMatchesAll ==
  (ScopeDone /\ Call.scope = <<>>) =>
    /\ (Call.call = "parseRuleScope" => Call.result = [type |-> "all", values |-> <<>>])
    /\ (Call.call = "matchesRuleScope" => Call.result = TRUE)
    /\ ((Call.call = "activeRules" /\ InRuleWindow) => Call.result = rules)

(***************************************************************************)
(* Properties of the adjustment engine.  Here lastRun holds one call of    *)
(* normalizeTimeToHms, timeStringToSeconds or computeAdjustmentEffects.    *)
(***************************************************************************)
EffectsDone == lastRun # Null
IsCall(name) == EffectsDone /\ Call.call = name
\* a time string one of whose hour, minute and second parts is not numeric
Unparseable(value) ==
  \E i \in 1..Min2(3, Len(Split(Trim(value), ":"))) :
    \E k \in 1..Len(Split(Trim(value), ":")[i]) :
      ~IsDigit(Split(Trim(value), ":")[i][k]) /\ Split(Trim(value), ":")[i][k] # " "
HasUnparseableTime(adjustmentList) ==
  \E k \in 1..Len(adjustmentList) :
    Unparseable(adjustmentList[k].fromTime) \/ Unparseable(adjustmentList[k].toTime)
Midnight == <<"0", "0", ":", "0", "0", ":", "0", "0">>

\* C21: an unparseable time string normalizes to "00:00:00" and parses to 0
\* seconds, so computeAdjustmentEffects on a list holding such a string still
\* returns numeric effective shift bounds.
C21_UnparseableTimes ==
  /\ (IsCall("normalizeTimeToHms") /\ Unparseable(Call.args.value)) => Call.result = Midnight
  /\ (IsCall("timeStringToSeconds") /\ Unparseable(Call.args.value)) => Call.result = 0
  /\ (IsCall("computeAdjustmentEffects") /\ HasUnparseableTime(Call.args.adjustments)) =>
       /\ Call.result.effectiveShiftStartSeconds \in Nat
       /\ Call.result.effectiveShiftEndSeconds \in Nat

\* the adjustments, the nominal shift and the result of a call of
\* computeAdjustmentEffects
CallList == Call.args.adjustments
CallShiftStart == timeStringToSeconds(Call.args.shiftStart)
CallShiftEnd == timeStringToSeconds(Call.args.shiftEnd)
FromOf(k) == timeStringToSeconds(CallList[k].fromTime)
ToOf(k) == timeStringToSeconds(CallList[k].toTime)
\* the list holds only permissions and half-day leaves, each with parseable
\* times and fromTime <= toTime inside the nominal shift, no two overlapping
WellFormedIntervals ==
  /\ ~HasUnparseableTime(CallList)
  /\ \A k \in 1..Len(CallList) :
       /\ CallList[k].type \in {AdjMorningPermission, AdjEveningPermission, AdjHalfDayLeave}
       /\ CallShiftStart <= FromOf(k) /\ FromOf(k) <= ToOf(k) /\ ToOf(k) <= CallShiftEnd
  /\ \A a, b \in 1..Len(CallList) :
       a # b => (ToOf(a) <= FromOf(b) \/ ToOf(b) <= FromOf(a))
\* a half-day leave that spans the whole nominal shift
WholeShiftHalfDay(k) ==
  CallList[k].type = AdjHalfDayLeave /\ FromOf(k) = CallShiftStart /\ ToOf(k) = CallShiftEnd

\* C27 as stated: for permissions and half-day leaves with fromTime <= toTime
\* inside the nominal shift and not overlapping, the effective start is not
\* after the effective end.
C27_EffectiveWindow_AsStated ==
  (IsCall("computeAdjustmentEffects") /\ WellFormedIntervals) =>
    Call.result.effectiveShiftStartSeconds <= Call.result.effectiveShiftEndSeconds

\* C27: for permissions and half-day leaves with fromTime <= toTime inside
\* the nominal shift and not overlapping, none of them a half-day leave that
\* spans the whole shift, the effective start is not after the effective end.
C27_EffectiveWindow ==
  (IsCall("computeAdjustmentEffects") /\ WellFormedIntervals
     /\ \A k \in 1..Len(CallList) : ~WholeShiftHalfDay(k)) =>
    Call.result.effectiveShiftStartSeconds <= Call.result.effectiveShiftEndSeconds
\* a call on a half-day leave and two permissions that fill the shift: the
\* effective window has shrunk to a point
C27_Witness ==
  /\ IsCall("computeAdjustmentEffects") /\ WellFormedIntervals
  /\ \A k \in 1..Len(CallList) : ~WholeShiftHalfDay(k)
  /\ \E a, b, c \in 1..Len(CallList) :
       /\ CallList[a].type = AdjHalfDayLeave
       /\ CallList[b].type = AdjMorningPermission
       /\ CallList[c].type = AdjEveningPermission
  /\ Call.result.halfDayExcused
  /\ Call.result.effectiveShiftStartSeconds = Call.result.effectiveShiftEndSeconds

\* what the claim compares of two results
EffectsSummary(result) ==
  <<result.effectiveShiftStartSeconds, result.effectiveShiftEndSeconds,
    result.missionStartSeconds, result.missionEndSeconds,
    result.suppressPenalties, result.halfDayExcused>>
\* the call repeated on the list reordered by p
Reordered(p) ==
  computeAdjustmentEffects(Call.args.shiftStart, Call.args.shiftEnd,
                           [i \in 1..Len(CallList) |-> CallList[p[i]]],
                           Call.args.checkInSeconds, Call.args.checkOutSeconds)
SameForEveryOrder ==
  \A p \in Permutations(1..Len(CallList)) :
    EffectsSummary(Reordered(p)) = EffectsSummary(Call.result)
\* half-day leaves that set the effective start / the effective end
SetsStart(k) == CallList[k].type = AdjHalfDayLeave /\ NEq(FromOf(k), CallShiftStart)
SetsEnd(k) == CallList[k].type = AdjHalfDayLeave /\ NEq(ToOf(k), CallShiftEnd)
\* no half-day leave sets a bound that a permission or a different half-day
\* leave of the list also changes
NoBoundSetTwice ==
  \A a, b \in 1..Len(CallList) :
    /\ (SetsStart(a) /\ a # b) =>
         /\ CallList[b].type # AdjMorningPermission
         /\ SetsStart(b) => ToOf(b) = ToOf(a)
    /\ (SetsEnd(a) /\ a # b) =>
         /\ CallList[b].type # AdjEveningPermission
         /\ SetsEnd(b) => FromOf(b) = FromOf(a)

\* C29 as stated: computeAdjustmentEffects returns the same effective bounds,
\* mission window and flags for every permutation of the adjustment list.
C29_OrderIndependent_AsStated ==
  IsCall("computeAdjustmentEffects") => SameForEveryOrder

\* C29: computeAdjustmentEffects returns the same effective bounds, mission
\* window and flags for every permutation of a list in which no half-day
\* leave sets a bound that a permission on the same side or a different
\* half-day leave also changes.
C29_OrderIndependent ==
  (IsCall("computeAdjustmentEffects") /\ NoBoundSetTwice) => SameForEveryOrder
\* a call on three different adjustments, among them a mission, a permission
\* and a half-day leave on the other side
C29_Witness ==
  /\ IsCall("computeAdjustmentEffects") /\ NoBoundSetTwice
  /\ Len(CallList) = 3
  /\ \E a, b, c \in 1..3 :
       /\ CallList[a].type = AdjMission
       /\ CallList[b].type = AdjMorningPermission
       /\ SetsEnd(c)
  /\ Call.result.effectiveShiftStartSeconds > CallShiftStart
  /\ Call.result.effectiveShiftEndSeconds < CallShiftEnd

(***************************************************************************)
(* Properties of the employee roster of the store.                         *)
(***************************************************************************)
\* C30: after any sequence of importEmployees, createEmployee and
\* updateEmployee calls, no two entries of state.employees have the same code.
C30_EmployeeCodesUnique ==
  \A a, b \in 1..Len(employees) : a # b => employees[a].code # employees[b].code

(***************************************************************************)
(* Properties of the export tables.                                        *)
(***************************************************************************)
ExportDone == lastRun # Null /\ Call.call = "buildAttendanceExportRows"
\* the positions of the exported records of one employee code
ExportedOf(code) == {i \in 1..Len(Call.records) : Call.records[i].employeeCode = code}
\* the positions counted as absence days: status "Absent" on a day that is not a Friday
AbsentNonFriday(code) ==
  {i \in ExportedOf(code) :
     Call.records[i].status = "Absent" /\ getUTCDay(Call.records[i].date) # Friday}
RECURSIVE ExcusedSum(_)
\* the sum of excusedAbsenceDays over a set of record positions (a missing value is 0)
ExcusedSum(positions) ==
  IF positions = {} THEN 0
  ELSE LET i == CHOOSE x \in positions : TRUE
           v == Call.records[i].excusedAbsenceDays
       IN (IF v = Null THEN 0 ELSE Val(v)) + ExcusedSum(positions \ {i})

\* C22: buildAttendanceExportRows emits one summary row per distinct
\* employeeCode of the records; in it the absence-days column is the number of
\* that employee's non-Friday records with status "Absent", and the weighted
\* absence total is 2 x absenceDays plus the sum of excusedAbsenceDays over
\* that employee's records.
C22_ExportSummaryWeighting ==
  ExportDone =>
    /\ {Call.summaryRows[k].code : k \in 1..Len(Call.summaryRows)}
         = {Call.records[i].employeeCode : i \in 1..Len(Call.records)}
    /\ \A k, l \in 1..Len(Call.summaryRows) :
         Call.summaryRows[k].code = Call.summaryRows[l].code => k = l
    /\ \A k \in 1..Len(Call.summaryRows) :
         LET row == Call.summaryRows[k]
         IN /\ row.absenceDays = Cardinality(AbsentNonFriday(row.code))
            /\ row.summaryAbsenceTotal
                 = 2 * row.absenceDays + ExcusedSum(ExportedOf(row.code))

\* C22 witness: an export of two employees in which one employee has an absent
\* Friday record, an absent record of another day and an excused absence, and
\* its row shows one absence day and the weighted total 3
C22_Witness ==
  /\ ExportDone
  /\ Len(Call.summaryRows) = 2
  /\ \E k \in 1..Len(Call.summaryRows) :
       /\ Call.summaryRows[k].absenceDays = 1
       /\ Call.summaryRows[k].summaryAbsenceTotal = 3
       /\ \E i \in ExportedOf(Call.summaryRows[k].code) :
            Call.records[i].status = "Absent" /\ getUTCDay(Call.records[i].date) = Friday

====
